---- MODULE Spec2Model ----
(***************************************************************************)
(* MailBot: the per-account IMAP poller (core/fetcher.py), the mode-aware  *)
(* dispatch of fetched snapshots (core/manager.py, core/notifiers/         *)
(* telegram.py, core/ai.py) and the Telegram callback handlers             *)
(* (core/bot.py).                                                          *)
(*                                                                         *)
(* SpecFetch     one EmailFetcher polling one mailbox.                     *)
(* SpecScan      one EmailFetcher, after its first poll, scanning a mailbox *)
(*               whose messages carry every kind of date and may fail to   *)
(*               parse.                                                    *)
(* SpecReset     one EmailFetcher whose calls fail in every way, and        *)
(*               reset_error between the calls.                            *)
(* SpecDispatch  one ServiceManager dispatching snapshots while the bot    *)
(*               handler serves summary and translate callbacks.           *)
(* SpecNotifier  TelegramNotifier.send_with_mode applied to one input.     *)
(* SpecCache     the dispatcher registering snapshots in a pending cache   *)
(*               that is near its bound.                                   *)
(* SpecTick      one worker of ServiceManager polling every account and    *)
(*               dispatching what it gathered, and a stop().               *)
(* SpecService   start, stop and reload_config of ServiceManager and the   *)
(*               workers they create and leave behind.                     *)
(* SpecStopFair  start and stop only, with every call in flight returning. *)
(* SpecLocks     the poll task, the interaction task and the control       *)
(*               thread taking and releasing the per-resource locks.       *)
(* SpecRules     the bot handler serving messages and the rules buttons of  *)
(*               two chats.                                                *)
(* SpecAI        analyze_email called with every configuration, import     *)
(*               outcome, completion outcome and reply.                    *)
(* SpecPoll      the interaction loop taking batches of updates from the   *)
(*               Bot API and handing them to the handler.                  *)
(* SpecMode      the dispatcher while the bot handler serves mode switch   *)
(*               callbacks that write through to config.json.              *)
(***************************************************************************)
EXTENDS Integers, Sequences, FiniteSets, TLC

(***************************************************************************)
(* Bounds of the model.                                                    *)
(***************************************************************************)
MaxRetries == 4      \* max_retries is drawn from 1..MaxRetries
MaxMsgs == 2         \* messages that arrive while max_retries <= MailRetries
MailRetries == 2
MinMsgs == 1         \* messages that arrive while max_retries > MailRetries
MaxNotifiers == 2    \* enabled Telegram notifiers of the configuration
MaxDispatches == 3   \* snapshots the pollers hand to the dispatcher
Backlog == 2         \* dispatches that follow a cache that starts filled
ModeDispatches == 2  \* dispatches that mode switches interleave with
CacheRegs == 3       \* registrations that follow a cache near its bound
CacheRoom == 2       \* the fullest and the emptiest such cache differ by this
NumAccounts == 2     \* accounts of the configuration, in its order
MaxStarts == 2       \* worker threads that start() may create
MaxSnaps == 2        \* snapshots the fetchers return to the poll loop
MaxOps == 3          \* start, stop and reload_config calls
MaxRules == 2        \* lines of rules.md
MaxUpdates == 3      \* updates the Bot API server issues
MaxHandlers == 2     \* bot handlers the service manager builds
ScanMsgs == 3        \* unseen messages of a mailbox that is scanned

(***************************************************************************)
(* Program constants.                                                      *)
(***************************************************************************)
BACKOFF_BASE == <<5, 10, 30>>
MAX_RETRIES_DEFAULT == 3
FETCH_LIMIT == 50
SKIP_LEN == 100        \* should_skip_ai: len(body) < 100
SKIP_WINDOW == 300     \* should_skip_ai: body[:300]
PREVIEW_LEN == 50      \* _send_hybrid: body[:50]
CACHE_MAX == 200       \* cache_email: len(self._email_cache) > 200
CACHE_EVICT == 100     \* cache_email: list(keys)[:100]
PLAIN_PREVIEW == 500   \* format_message: body_text[:500]
DISPATCH_ARGS == 4     \* _dispatch_notification: send_with_mode(snapshot, current_mode, ai_result, target_lang)
SEND_WITH_MODE_PARAMS == 3   \* send_with_mode(self, snapshot, mode, ai_result=None)

Folders == <<"INBOX", "Archive">>
\* msg.date against EmailFetcher._started_at: no date, or a time on the
\* scale of DateAt
DateClass == {"none", "before", "at", "after"}
STARTED_AT == 1
\* the dates of the messages that arrive during SpecFetch (SpecScan has all)
ArrivalDates == DateClass \ {"at"}

Terminal == {"auth_failed", "disabled"}

VARIABLES
    \* ---- EmailFetcher
    enabled,          \* AccountConfig.enabled
    max_retries,      \* EmailFetcher._max_retries
    state,            \* AccountStatus.state
    error_message,    \* AccountStatus.error_message (its kind)
    retry_count,      \* AccountStatus.retry_count
    forwarded_count,  \* AccountStatus.forwarded_count
    seen_uids,        \* EmailFetcher._seen_uids
    bootstrap_done,   \* EmailFetcher._bootstrap_done
    pc,               \* position of the thread inside fetch_new_emails
    attempt,          \* the loop variable of fetch_new_emails
    snapshots,        \* the local list of _do_fetch
    folderIdx,        \* the folder _do_fetch is scanning
    todo,             \* what mailbox.fetch has still to yield in that folder
    mailbox,          \* the server: the unseen messages of each folder
    arrivals,         \* the server: messages that are still to arrive
    stop_event,       \* the stop predicate handed in as stop_check
    slept,            \* seconds slept in the backoff wait in progress
    call,             \* what the current (or last) call did
    returned,         \* every uid a call has returned so far
    dupReturned,      \* a uid was returned a second time
    succeeded         \* an attempt has succeeded

VARIABLES
    \* ---- ServiceManager and TelegramBotHandler
    notifiers,        \* len(ServiceManager._notifiers), all TelegramNotifier
    ai_enabled,       \* AppConfig.ai.enabled
    mode,             \* TelegramBotHandler._mode
    email_cache,      \* TelegramBotHandler._email_cache, in insertion order
    total_forwarded,  \* ServiceManager._total_forwarded
    nextUid,          \* the pollers: the next uid each account returns
    budget,           \* the pollers: snapshots still to be returned
    disp,             \* _dispatch_notification: its locals, and what it did
    cb,               \* the callback the interaction thread handled last
    \* ---- TelegramNotifier
    notif,            \* one send_with_mode call: its arguments and outcome
    \* ---- the configuration file (config.json)
    config_file       \* the file at TelegramBotHandler._config_path: whether
                      \* it exists, the ai.default_mode it holds, whether it
                      \* is the file the configuration was loaded from, and
                      \* the ai.default_mode that was loaded

fetchVars == <<enabled, max_retries, state, error_message, retry_count,
               forwarded_count, seen_uids, bootstrap_done, pc, attempt,
               snapshots, folderIdx, todo, mailbox, arrivals, stop_event,
               slept, call, returned, dupReturned, succeeded>>

dispVars == <<notifiers, ai_enabled, mode, email_cache, total_forwarded,
              nextUid, budget, disp, cb>>

notifVars == <<notif>>

confVars == <<config_file>>

VARIABLES
    \* ---- ServiceManager: life cycle and poll loop
    svc_state,        \* ServiceManager._state
    svc_stop_event,   \* ServiceManager._stop_event
    thread,           \* ServiceManager._thread: the worker started last, or 0
    workers,          \* every MailBot-Worker thread: its place in _main_loop
                      \* and _poll_cycle, and the locals of _poll_cycle
    statuses,         \* the state of each fetcher of ServiceManager._fetchers
    bot_thread,       \* the TelegramBot-Poller thread and its stop event
    ctl,              \* the control thread: the call it is in
    inbox,            \* the servers: snapshots that are still to be returned
    ops               \* life cycle calls the control thread may still make

svcVars == <<svc_state, svc_stop_event, thread, workers, statuses, bot_thread,
             ctl, inbox, ops>>

VARIABLES
    \* ---- the per-resource locks
    tasks             \* the poll task, the interaction task and the control
                      \* thread: the operation each is in, the locks it has
                      \* still to take and the locks it holds

lockVars == <<tasks>>

VARIABLES
    \* ---- TelegramBotHandler: the /rules conversation
    rules_pending,    \* TelegramBotHandler._rules_pending, by chat id
    rules_file,       \* the lines of rules.md, without their numbers
    upd,              \* the update handled last, and what was done with it
    cancelled         \* by chat id: its last update was a plain /rules

rulesVars == <<rules_pending, rules_file, upd, cancelled>>

VARIABLES
    \* ---- core/ai.py
    ai                \* one call of analyze_email: what it is given, what
                      \* its collaborators do, and how it ends

aiVars == <<ai>>

VARIABLES
    \* ---- TelegramBotHandler._poll_loop and the Bot API server
    poller            \* where the loop is, its offset and the batch in
                      \* hand; the updates the server has issued and
                      \* confirmed; how often each was handled

pollVars == <<poller>>

vars == <<fetchVars, dispVars, notifVars, confVars, svcVars, lockVars,
          rulesVars, aiVars, pollVars>>

\* what the actions of one component leave alone
NotFetch == <<dispVars, notifVars, confVars, svcVars, lockVars, rulesVars,
    aiVars, pollVars>>

NotBot == <<fetchVars, notifVars, svcVars, lockVars, rulesVars,
    aiVars, pollVars>>

NotDispatch == <<NotBot, confVars>>

NotNotifier == <<fetchVars, dispVars, confVars, svcVars, lockVars, rulesVars,
    aiVars, pollVars>>

NotService == <<fetchVars, dispVars, notifVars, confVars, lockVars, rulesVars,
    aiVars, pollVars>>

NotLocks == <<fetchVars, dispVars, notifVars, confVars, svcVars, rulesVars,
    aiVars, pollVars>>

NotRules == <<fetchVars, dispVars, notifVars, confVars, svcVars, lockVars,
    aiVars, pollVars>>

NotAI == <<fetchVars, dispVars, notifVars, confVars, svcVars, lockVars,
    rulesVars, pollVars>>

NotPoll == <<fetchVars, dispVars, notifVars, confVars, svcVars, lockVars,
    rulesVars, aiVars>>

(***************************************************************************)
(* Helpers.                                                                *)
(***************************************************************************)
Min(a, b) == IF a < b THEN a ELSE b

RECURSIVE SeqToSet(_)
SeqToSet(s) == IF s = <<>> THEN {} ELSE {Head(s)} \cup SeqToSet(Tail(s))

\* variant of is_errored that leaves AuthFailed out (C5 fails under it)
is_errored_OnlyDisabled(st) == st = "disabled"

\* variant of is_errored that keeps an account in Error out of later polls
\* (C27 fails under it)
is_errored_AlsoError(st) == st \in Terminal \cup {"error"}

\* is_errored
is_errored(st) == st \in Terminal

\* variant of BackoffWait that indexes one place too far (C4 fails under it)
BackoffWait_Shifted(a) == BACKOFF_BASE[Min(a + 1, Len(BACKOFF_BASE) - 1) + 1]

\* BACKOFF_BASE[min(attempt, len(BACKOFF_BASE) - 1)], attempt 0-based
BackoffWait(a) == BACKOFF_BASE[Min(a, Len(BACKOFF_BASE) - 1) + 1]

\* fetch_limit = None if not self._bootstrap_done else 50  (0 stands for None)
FetchLimitOf(done) == IF done THEN FETCH_LIMIT ELSE 0

\* mailbox.fetch(AND(seen=False), limit=..., reverse=True): newest first
RECURSIVE Newest(_, _)
Newest(ms, n) ==
    IF ms = {} \/ n = 0 THEN <<>>
    ELSE LET m == CHOOSE x \in ms : \A y \in ms : y.uid <= x.uid
         IN <<m>> \o Newest(ms \ {m}, n - 1)

ListFolder(f, limit) ==
    LET ms == mailbox[f]
    IN Newest(ms, IF limit = 0 THEN Cardinality(ms) ELSE Min(limit, Cardinality(ms)))

NoCall == [outcome |-> "none", attempts |-> 0, sleeps |-> <<>>,
           netFails |-> 0, authRaised |-> FALSE, enteredRunning |-> FALSE,
           startState |-> "idle", bootAtStart |-> FALSE,
           listed |-> {}, ret |-> {}]

NewCall == [outcome |-> "running", attempts |-> 0, sleeps |-> <<>>,
            netFails |-> 0, authRaised |-> FALSE, enteredRunning |-> FALSE,
            startState |-> state, bootAtStart |-> bootstrap_done,
            listed |-> {}, ret |-> {}]

(***************************************************************************)
(* EmailFetcher.__init__                                                   *)
(***************************************************************************)
InitFetcher ==
    /\ enabled \in BOOLEAN
    /\ max_retries \in 1..MaxRetries
    /\ arrivals = IF max_retries <= MailRetries THEN MaxMsgs ELSE MinMsgs
    /\ state = "idle"
    /\ error_message = ""
    /\ retry_count = 0
    /\ forwarded_count = 0
    /\ seen_uids = {}
    /\ bootstrap_done = FALSE
    /\ pc = "idle"
    /\ attempt = 0
    /\ snapshots = <<>>
    /\ folderIdx = 0
    /\ todo = <<>>
    /\ mailbox = [f \in 1..Len(Folders) |-> {}]
    /\ stop_event = FALSE
    /\ slept = 0
    /\ call = NoCall
    /\ returned = {}
    /\ dupReturned = FALSE
    /\ succeeded = FALSE

(***************************************************************************)
(* The mail server and the control thread.                                 *)
(***************************************************************************)
\* a message arrives in a folder, between two calls (the UIDs of a folder
\* only grow; the server keeps every message unseen, so each poll lists
\* all of them again)
Arrive ==
    /\ pc = "idle"
    /\ ~stop_event
    /\ arrivals > 0
    /\ arrivals' = arrivals - 1
    /\ \E f \in 1..Len(Folders), d \in ArrivalDates :
         mailbox' = [mailbox EXCEPT ![f] =
                        @ \cup {[uid |-> Cardinality(@) + 1, date |-> d]}]
    /\ call' = NoCall
    /\ UNCHANGED <<enabled, max_retries, state, error_message, retry_count,
                   forwarded_count, seen_uids, bootstrap_done, pc, attempt,
                   snapshots, folderIdx, todo, stop_event, returned,
                   dupReturned, succeeded>>
    /\ UNCHANGED slept
    /\ UNCHANGED NotFetch

\* threading.Event.set() by ServiceManager.stop, while a call is in progress
\* variant of stop_check for a caller that hands in no predicate (C17
\* fails under it)
stop_check_None(ev) == FALSE

\* lines 127 and 170: `stop_check and stop_check()`, where stop_check is
\* ServiceManager._stop_event.is_set (manager.py line 277)
stop_check(ev) == ev

StopSignal ==
    /\ ~stop_event
    /\ pc # "idle"
    /\ stop_event' = TRUE
    /\ UNCHANGED <<enabled, max_retries, arrivals, state, error_message, retry_count,
                   forwarded_count, seen_uids, bootstrap_done, pc, attempt,
                   snapshots, folderIdx, todo, mailbox, call, returned,
                   dupReturned, succeeded>>
    /\ UNCHANGED slept
    /\ UNCHANGED NotFetch

\* threading.Event.clear() by ServiceManager.start
StartSignal ==
    /\ stop_event
    /\ pc = "idle"
    /\ stop_event' = FALSE
    /\ call' = NoCall
    /\ UNCHANGED <<enabled, max_retries, arrivals, state, error_message, retry_count,
                   forwarded_count, seen_uids, bootstrap_done, pc, attempt,
                   snapshots, folderIdx, todo, mailbox, returned,
                   dupReturned, succeeded>>
    /\ UNCHANGED slept
    /\ UNCHANGED NotFetch

(***************************************************************************)
(* fetch_new_emails                                                        *)
(***************************************************************************)
\* the call returns the list `snaps`
ReturnWith(snaps, outcome) ==
    /\ pc' = "idle"
    /\ succeeded' = (succeeded \/ outcome = "success")
    /\ call' = [call EXCEPT !.outcome = outcome, !.ret = SeqToSet(snaps)]
    /\ returned' = returned \cup SeqToSet(snaps)
    /\ dupReturned' = \/ dupReturned
                      \/ SeqToSet(snaps) \cap returned # {}
                      \/ Len(snaps) # Cardinality(SeqToSet(snaps))
    /\ snapshots' = <<>>
    /\ todo' = <<>>
    /\ folderIdx' = 0

\* lines 117-124
FetchCall ==
    /\ pc = "idle"
    /\ IF is_errored(state)
       THEN /\ call' = [NewCall EXCEPT !.outcome = "short_circuit"]
            /\ UNCHANGED <<state, error_message, pc, attempt>>
       ELSE IF ~enabled
       THEN /\ call' = [NewCall EXCEPT !.outcome = "not_enabled"]
            /\ UNCHANGED <<state, error_message, pc, attempt>>
       ELSE /\ state' = "running"
            /\ error_message' = ""
            /\ pc' = "loop"
            /\ attempt' = 0
            /\ call' = [NewCall EXCEPT !.enteredRunning = TRUE]
    /\ UNCHANGED <<enabled, max_retries, arrivals, retry_count, forwarded_count,
                   seen_uids, bootstrap_done, snapshots, folderIdx, todo,
                   mailbox, stop_event, returned, dupReturned, succeeded>>
    /\ UNCHANGED slept
    /\ UNCHANGED NotFetch

\* variant of StateWhenStopped for a stop path that returns without
\* touching the status (C35 fails under it)
StateWhenStopped_Untouched == "running"

\* lines 128 and 171: self._update_status(state=AccountState.IDLE)
StateWhenStopped == "idle"

\* lines 126-129: the stop check at the head of the loop
LoopStopped ==
    /\ pc = "loop"
    /\ attempt < max_retries
    /\ stop_check(stop_event)
    /\ state' = StateWhenStopped
    /\ ReturnWith(<<>>, "stopped")
    /\ UNCHANGED <<enabled, max_retries, arrivals, error_message, retry_count,
                   forwarded_count, seen_uids, bootstrap_done, attempt,
                   mailbox, stop_event>>
    /\ UNCHANGED slept
    /\ UNCHANGED NotFetch

\* lines 187-196: the loop ran out
RetriesExhausted ==
    /\ pc = "loop"
    /\ attempt >= max_retries
    /\ state' = "error"
    /\ error_message' = "exhausted"
    /\ ReturnWith(<<>>, "exhausted")
    /\ UNCHANGED <<enabled, max_retries, arrivals, retry_count, forwarded_count,
                   seen_uids, bootstrap_done, attempt, mailbox, stop_event>>
    /\ UNCHANGED slept
    /\ UNCHANGED NotFetch

\* variant of Handler that retries authentication errors (C3 fails under it)
Handler_AuthRetried(kind) ==
    CASE kind \in {"auth", "net"} -> "backoff"
      [] OTHER -> "give_up"

\* The except clauses of lines 139-185, by the kind of exception raised in
\* _do_fetch: "auth" MailboxLoginError, "net" TimeoutError/OSError/
\* ConnectionError, "other" any other Exception.
Handler(kind) ==
    CASE kind = "auth" -> "fail_fast"
      [] kind = "net" -> "backoff"
      [] OTHER -> "give_up"

\* _do_fetch raises `kind`; atLogin: the exception comes from the login
Raise(kind, atLogin) ==
    /\ call' = [call EXCEPT
                  !.attempts = IF atLogin THEN @ + 1 ELSE @,
                  !.listed = IF atLogin THEN {} ELSE @,
                  !.authRaised = (@ \/ kind = "auth"),
                  !.netFails = IF kind = "net" THEN @ + 1 ELSE @,
                  !.outcome = CASE Handler(kind) = "fail_fast" -> "auth"
                                [] Handler(kind) = "give_up" -> "unexpected"
                                [] OTHER -> @,
                  !.ret = {}]
    /\ CASE Handler(kind) = "fail_fast" ->
              \* lines 139-151
              /\ state' = "auth_failed"
              /\ error_message' = "auth"
              /\ pc' = "idle"
              /\ UNCHANGED retry_count
         [] Handler(kind) = "backoff" ->
              \* lines 153-167
              /\ state' = "error"
              /\ error_message' = "network"
              /\ retry_count' = attempt + 1
              /\ pc' = "sleep"
         [] OTHER ->
              \* lines 175-185
              /\ state' = "error"
              /\ error_message' = "unexpected"
              /\ pc' = "idle"
              /\ UNCHANGED retry_count
    /\ snapshots' = <<>>
    /\ todo' = <<>>
    /\ folderIdx' = 0
    /\ UNCHANGED <<enabled, max_retries, arrivals, forwarded_count, seen_uids,
                   bootstrap_done, attempt, mailbox, stop_event, returned,
                   dupReturned, succeeded>>

\* lines 131-132, 203-223: a connection attempt logs in and lists folder 1
Connect ==
    /\ pc = "loop"
    /\ attempt < max_retries
    /\ ~stop_check(stop_event)
    /\ LET l == ListFolder(1, FetchLimitOf(bootstrap_done))
       IN /\ pc' = "scan"
          /\ folderIdx' = 1
          /\ todo' = l
          /\ snapshots' = <<>>
          /\ call' = [call EXCEPT !.attempts = @ + 1,
                                  !.listed = {m.uid : m \in SeqToSet(l)}]
    /\ UNCHANGED <<enabled, max_retries, arrivals, state, error_message, retry_count,
                   forwarded_count, seen_uids, bootstrap_done, attempt,
                   mailbox, stop_event, returned, dupReturned, succeeded>>
    /\ UNCHANGED slept
    /\ UNCHANGED NotFetch

\* lines 207-213: the login of a connection attempt raises
ConnectFails ==
    /\ pc = "loop"
    /\ attempt < max_retries
    /\ ~stop_check(stop_event)
    /\ \E kind \in {"auth", "net", "other"} : Raise(kind, TRUE)
    /\ UNCHANGED slept
    /\ UNCHANGED NotFetch

\* lines 223: the connection breaks while a folder is read
ScanFails ==
    /\ pc = "scan"
    /\ \E kind \in {"net", "other"} : Raise(kind, FALSE)
    /\ UNCHANGED slept
    /\ UNCHANGED NotFetch

\* the time of a dated message, in UTC
DateAt(date) ==
    CASE date = "before" -> STARTED_AT - 1
      [] date = "at" -> STARTED_AT
      [] OTHER -> STARTED_AT + 1

\* variant of IsPreStart that lets every message pass (C24 fails under it)
IsPreStart_Never(date) == FALSE

\* lines 235-236: `msg_dt and msg_dt < self._started_at`, msg_dt being
\* _normalize_dt(msg.date), which is None for no date
IsPreStart(date) == date # "none" /\ DateAt(date) < STARTED_AT

\* variant of Decide without the bootstrap branch (C2 fails under it)
Decide_NoBootstrap(uid, date, seen, done) ==
    IF uid \in seen THEN "skip_seen"
    ELSE IF IsPreStart(date) THEN "skip_old"
    ELSE "parse"

\* lines 226-245: what the loop body does with one listed message
Decide(uid, date, seen, done) ==
    IF uid \in seen THEN "skip_seen"
    ELSE IF ~done THEN "absorb"
    ELSE IF IsPreStart(date) THEN "skip_old"
    ELSE "parse"

\* variant of SeenAfterParse that does not record the uid (C1 fails under it)
SeenAfterParse_Forgets(seen, uid) == seen

\* line 243: a parsed message is marked seen
SeenAfterParse(seen, uid) == seen \cup {uid}

\* variant of OnParseError without the try of line 240 (C26 fails under it)
OnParseError_Propagates(e) == "raise"

\* lines 240-245: `except Exception: logger.exception(...)` around
\* parse_email and the two lines that record its result
OnParseError(e) == "drop"

\* lines 224-245: the loop body for the next listed message; parse_email
\* may raise
ProcessMsg ==
    /\ pc = "scan"
    /\ todo # <<>>
    /\ LET m == Head(todo)
           d == Decide(m.uid, m.date, seen_uids, bootstrap_done)
           go_on == /\ todo' = Tail(todo)
                    /\ UNCHANGED <<enabled, max_retries, arrivals, state,
                                   error_message, retry_count, forwarded_count,
                                   bootstrap_done, pc, attempt, folderIdx,
                                   mailbox, stop_event, returned, dupReturned,
                                   succeeded>>
       IN \/ /\ d = "skip_seen"
             /\ UNCHANGED <<seen_uids, snapshots, call>>
             /\ go_on
          \/ /\ d \in {"absorb", "skip_old"}
             /\ seen_uids' = seen_uids \cup {m.uid}
             /\ UNCHANGED <<snapshots, call>>
             /\ go_on
          \/ /\ d = "parse"
             /\ snapshots' = Append(snapshots, m.uid)
             /\ seen_uids' = SeenAfterParse(seen_uids, m.uid)
             /\ UNCHANGED call
             /\ go_on
          \/ /\ d = "parse"
             /\ IF OnParseError("Exception") = "drop"
                THEN /\ UNCHANGED <<seen_uids, snapshots, call>>
                     /\ go_on
                ELSE Raise("other", FALSE)
    /\ UNCHANGED slept
    /\ UNCHANGED NotFetch

\* lines 219-223: the next configured folder is selected and listed
NextFolder ==
    /\ pc = "scan"
    /\ todo = <<>>
    /\ folderIdx < Len(Folders)
    /\ LET l == ListFolder(folderIdx + 1, FetchLimitOf(bootstrap_done))
       IN /\ todo' = l
          /\ call' = [call EXCEPT !.listed = @ \cup {m.uid : m \in SeqToSet(l)}]
    /\ folderIdx' = folderIdx + 1
    /\ UNCHANGED <<enabled, max_retries, arrivals, state, error_message, retry_count,
                   forwarded_count, seen_uids, bootstrap_done, pc, attempt,
                   snapshots, mailbox, stop_event, returned, dupReturned, succeeded>>
    /\ UNCHANGED slept
    /\ UNCHANGED NotFetch

\* lines 247-266 and 133-137: the attempt succeeds and the call returns
FinishFetch ==
    /\ pc = "scan"
    /\ todo = <<>>
    /\ folderIdx = Len(Folders)
    /\ bootstrap_done' = TRUE
    /\ forwarded_count' = forwarded_count + Len(snapshots)
    /\ state' = "idle"
    /\ retry_count' = 0
    /\ ReturnWith(snapshots, "success")
    /\ UNCHANGED <<enabled, max_retries, arrivals, error_message, seen_uids, attempt,
                   mailbox, stop_event>>
    /\ UNCHANGED slept
    /\ UNCHANGED NotFetch

\* lines 169-173: one round of the backoff loop, the check of stop_check
\* and one time.sleep(1). A check that sees the stop signal (set before the
\* wait, or by ServiceManager.stop during it) returns from the call; the
\* round that sleeps the last second leaves the loop for the next attempt
\* of line 126.
BackoffSleep ==
    /\ pc = "sleep"
    /\ IF stop_check(stop_event)
       THEN \* lines 170-172
            /\ state' = StateWhenStopped
            /\ pc' = "idle"
            /\ call' = [call EXCEPT !.outcome = "stopped", !.ret = {}]
            /\ slept' = 0
            /\ UNCHANGED attempt
       ELSE IF slept + 1 < BackoffWait(attempt)
       THEN \* line 173: time.sleep(1)
            /\ slept' = slept + 1
            /\ UNCHANGED <<state, pc, call, attempt>>
       ELSE \* the last second of the wait, and on to the next attempt
            /\ call' = [call EXCEPT !.sleeps = Append(@, BackoffWait(attempt))]
            /\ attempt' = attempt + 1
            /\ pc' = "loop"
            /\ slept' = 0
            /\ UNCHANGED state
    /\ UNCHANGED <<enabled, max_retries, arrivals, error_message, retry_count,
                   forwarded_count, seen_uids, bootstrap_done, mailbox,
                   snapshots, todo, folderIdx, returned, dupReturned, succeeded,
                   stop_event>>
    /\ UNCHANGED NotFetch

\* variant of Resettable that resets whatever the state is (C36 fails
\* under it)
Resettable_Any(st) == TRUE

\* line 278: self._status.state in (ERROR, AUTH_FAILED)
Resettable(st) == st \in {"error", "auth_failed"}

\* lines 276-284
reset_error ==
    /\ pc = "idle"
    /\ IF Resettable(state)
       THEN /\ state' = "idle"
            /\ error_message' = ""
            /\ retry_count' = 0
       ELSE UNCHANGED <<state, error_message, retry_count>>
    /\ call' = NoCall
    /\ UNCHANGED <<enabled, max_retries, arrivals, forwarded_count, seen_uids,
                   bootstrap_done, pc, attempt, snapshots, folderIdx, todo,
                   mailbox, stop_event, returned, dupReturned, succeeded>>
    /\ UNCHANGED slept
    /\ UNCHANGED NotFetch

(***************************************************************************)
(* A fetcher that has made its first poll, and a mailbox to scan.          *)
(***************************************************************************)
\* the unseen messages 1..n, message i in folder fo[i] with date da[i]
Box(n, fo, da) ==
    [f \in 1..Len(Folders) |->
        {[uid |-> i, date |-> da[i]] : i \in {j \in 1..n : fo[j] = f}}]

ScanBoxes ==
    UNION {{Box(n, fo, da) : fo \in [1..n -> 1..Len(Folders)],
                             da \in [1..n -> DateClass]} : n \in 0..ScanMsgs}

\* lines 53-77 and the first successful poll (lines 247-249): the uids it
\* found, the oldest ones, are in the seen set; the others came later
InitScanner ==
    /\ enabled = TRUE
    /\ max_retries = MAX_RETRIES_DEFAULT
    /\ arrivals = 0
    /\ state = "idle"
    /\ error_message = ""
    /\ retry_count = 0
    /\ forwarded_count = 0
    /\ seen_uids \in {1..k : k \in 0..ScanMsgs}
    /\ bootstrap_done = TRUE
    /\ pc = "idle"
    /\ attempt = 0
    /\ snapshots = <<>>
    /\ folderIdx = 0
    /\ todo = <<>>
    /\ mailbox \in ScanBoxes
    /\ stop_event = FALSE
    /\ slept = 0
    /\ call = NoCall
    /\ returned = {}
    /\ dupReturned = FALSE
    /\ succeeded = TRUE

NextScan ==
    \/ FetchCall
    \/ Connect
    \/ ProcessMsg
    \/ NextFolder
    \/ FinishFetch

(***************************************************************************)
(* A fetcher between polls, whose calls fail in every way, and the         *)
(* operator resetting it.                                                  *)
(***************************************************************************)
\* lines 53-77: a fetcher before or after its first poll, and a mailbox
\* of at most one message
InitResetter ==
    /\ enabled = TRUE
    /\ max_retries \in {1, MAX_RETRIES_DEFAULT}
    /\ arrivals = 0
    /\ state = "idle"
    /\ error_message = ""
    /\ retry_count = 0
    /\ forwarded_count = 0
    /\ bootstrap_done \in BOOLEAN
    /\ seen_uids \in (IF bootstrap_done THEN {{}, {1}} ELSE {{}})
    /\ pc = "idle"
    /\ attempt = 0
    /\ snapshots = <<>>
    /\ folderIdx = 0
    /\ todo = <<>>
    /\ mailbox \in {b \in ScanBoxes :
                       \A f \in DOMAIN b : \A m \in b[f] : m.uid = 1}
    /\ stop_event = FALSE
    /\ slept = 0
    /\ call = NoCall
    /\ returned = {}
    /\ dupReturned = FALSE
    /\ succeeded = bootstrap_done

NextReset ==
    \/ FetchCall
    \/ RetriesExhausted
    \/ Connect
    \/ ConnectFails
    \/ ScanFails
    \/ ProcessMsg
    \/ NextFolder
    \/ FinishFetch
    \/ BackoffSleep
    \/ reset_error

NextFetch ==
    \/ Arrive
    \/ StopSignal
    \/ StartSignal
    \/ FetchCall
    \/ LoopStopped
    \/ RetriesExhausted
    \/ Connect
    \/ ConnectFails
    \/ ScanFails
    \/ ProcessMsg
    \/ NextFolder
    \/ FinishFetch
    \/ BackoffSleep
    \/ reset_error

(***************************************************************************)
(* Values of the dispatch pipeline.                                        *)
(***************************************************************************)
\* OperationMode
Modes == {"raw", "hybrid", "agent"}

Accounts == {"work", "home"}

\* A body_text, by what should_skip_ai and _send_hybrid read of it: its
\* length, where the one match of skip_patterns in it starts (-1: there
\* is none) and how long that match is.
BodyLens == {0, 17, 50, 51, 99, 100, 101, 299, 300, 301, 400}
PatStarts == {0, 5, 83, 95, 283, 284, 295, 296, 297, 298, 300, 383}
PatLens == {3, 5, 17}

Bodies ==
    {[len |-> n, pat |-> -1, plen |-> 0] : n \in BodyLens}
    \cup {b \in [len : BodyLens, pat : PatStarts, plen : PatLens] :
            b.pat + b.plen <= b.len}

\* "Your code: 123456"
CodeBody == [len |-> 17, pat |-> 5, plen |-> 5]
\* 400 characters of prose
ProseBody == [len |-> 400, pat |-> -1, plen |-> 0]

\* the mail of the model's accounts: codes at home, prose at work
BodyOf(a) == IF a = "home" THEN CodeBody ELSE ProseBody

\* EmailSnapshot, and None in its place
NoSnapshot == [uid |-> 0, account |-> "", body |-> [len |-> 0, pat |-> -1, plen |-> 0]]
SnapshotOf(u, a) == [uid |-> u, account |-> a, body |-> BodyOf(a)]

\* the fields AIAnalysisResult declares
AIResultFields == {"summary", "category", "priority", "extracted_code"}

\* reading attribute f of an AIAnalysisResult raises AttributeError unless
\* the model declares it
HasAttr(f) == f \in AIResultFields

\* None, _default_result() and a result parsed from a valid LLM reply
NoResult == [kind |-> "None", category |-> "", priority |-> 0, code |-> FALSE]
DefaultResult == [kind |-> "default", category |-> "notification",
                  priority |-> 3, code |-> FALSE]
ParsedResult == [kind |-> "parsed", category |-> "billing",
                 priority |-> 2, code |-> TRUE]

\* bool(x) of an AIAnalysisResult | None and of an EmailSnapshot | None: a
\* pydantic model instance is truthy
Truthy(x) == x.kind # "None"
IsSnapshot(x) == x.uid # 0

\* what litellm.completion comes back with
LLMReplies == {"error", "empty", "malformed", "valid"}

\* analyze_email: the result for config.enabled = ai_on and the LLM's reply,
\* for a configuration object that carries language and an installation
\* whose import of litellm passes (AnalyzeEmail has the other cases)
analyze_email(ai_on, reply) ==
    IF ~ai_on THEN DefaultResult
    ELSE CASE reply = "error" -> DefaultResult
           [] reply = "empty" -> DefaultResult
           [] reply = "malformed" -> DefaultResult
           [] OTHER ->
                \* line 332 reads result.source_language inside the try
                IF HasAttr("source_language") THEN ParsedResult
                ELSE DefaultResult

\* variant of should_skip_ai with len(body) <= 100 (C8 fails under it)
should_skip_ai_Inclusive(body) ==
    \/ body.len <= SKIP_LEN
    \/ body.pat >= 0 /\ body.pat + body.plen <= Min(body.len, SKIP_WINDOW)

\* should_skip_ai: short, or skip_patterns matches inside body[:300]
should_skip_ai(body) ==
    \/ body.len < SKIP_LEN
    \/ body.pat >= 0 /\ body.pat + body.plen <= Min(body.len, SKIP_WINDOW)

(***************************************************************************)
(* TelegramNotifier: what one call asks the Bot API to send.               *)
(***************************************************************************)
NoToken == [kind |-> "none", uid |-> 0]
\* f"summ_{snapshot.uid}"
SummToken(uid) == [kind |-> "summ", uid |-> uid]

NoOut == [raised |-> FALSE, shape |-> "none", button |-> NoToken, preview |-> 0]

\* send: format_message with body_text[:500], no reply_markup
send(snapshot) ==
    [raised |-> FALSE, shape |-> "plain", button |-> NoToken,
     preview |-> Min(snapshot.body.len, PLAIN_PREVIEW)]

\* _send_hybrid
send_hybrid(snapshot) ==
    IF should_skip_ai(snapshot.body) THEN send(snapshot)
    ELSE [raised |-> FALSE, shape |-> "preview",
          button |-> SummToken(snapshot.uid),
          preview |-> Min(snapshot.body.len, PREVIEW_LEN)]

\* _send_agent_card: reads category, priority, summary, extracted_code and
\* translation of the result
send_agent_card(snapshot, result) ==
    IF \A f \in {"category", "priority", "summary", "extracted_code",
                 "translation"} : HasAttr(f)
    THEN [raised |-> FALSE, shape |-> "card", button |-> NoToken, preview |-> 0]
    ELSE [NoOut EXCEPT !.raised = TRUE]

\* send_with_mode(snapshot, mode, ai_result)
send_with_mode(snapshot, m, ai_result) ==
    CASE m = "raw" -> send(snapshot)
      [] m = "hybrid" -> send_hybrid(snapshot)
      [] m = "agent" ->
           IF Truthy(ai_result) THEN send_agent_card(snapshot, ai_result)
           ELSE send(snapshot)
      [] OTHER -> send(snapshot)

NoNotif == [pc |-> "none", snapshot |-> NoSnapshot, mode |-> "raw",
            ai_result |-> NoResult, api |-> FALSE, out |-> NoOut, ok |-> FALSE]

\* one call of send_with_mode, on any snapshot, mode and ai_result; api: the
\* Bot API accepts the message
InitNotifier ==
    notif \in [pc : {"ready"},
               snapshot : [uid : 1..MaxDispatches, account : Accounts, body : Bodies],
               mode : Modes,
               ai_result : {NoResult, DefaultResult},
               api : BOOLEAN,
               out : {NoOut},
               ok : {FALSE}]

\* lines 85-110, and _send_text returning whether the API call succeeded
NotifierSend ==
    /\ notif.pc = "ready"
    /\ LET out == send_with_mode(notif.snapshot, notif.mode, notif.ai_result)
       IN notif' = [notif EXCEPT !.pc = "done", !.out = out,
                                 !.ok = (~out.raised /\ notif.api)]
    /\ UNCHANGED NotNotifier


(***************************************************************************)
(* TelegramBotHandler: the pending-message cache.                          *)
(***************************************************************************)
CachedUids(cache) == {cache[i].uid : i \in DOMAIN cache}

\* variant of cache_email that evicts as soon as the mark is reached (C14
\* fails under it)
cache_email_AtMark(cache, snapshot) ==
    LET put == IF snapshot.uid \in CachedUids(cache)
               THEN [i \in DOMAIN cache |->
                        IF cache[i].uid = snapshot.uid THEN snapshot ELSE cache[i]]
               ELSE Append(cache, snapshot)
    IN IF Len(put) >= CACHE_MAX
       THEN SubSeq(put, CACHE_EVICT + 1, Len(put))
       ELSE put

\* variant of cache_email that drops the newest keys (C39 fails under it)
cache_email_Newest(cache, snapshot) ==
    LET put == IF snapshot.uid \in CachedUids(cache)
               THEN [i \in DOMAIN cache |->
                        IF cache[i].uid = snapshot.uid THEN snapshot ELSE cache[i]]
               ELSE Append(cache, snapshot)
    IN IF Len(put) > CACHE_MAX
       THEN SubSeq(put, 1, Len(put) - CACHE_EVICT)
       ELSE put

\* cache_email: dict assignment keeps the place of a key that is present
\* and appends a new one; past CACHE_MAX entries the first CACHE_EVICT keys
\* are dropped
cache_email(cache, snapshot) ==
    LET put == IF snapshot.uid \in CachedUids(cache)
               THEN [i \in DOMAIN cache |->
                        IF cache[i].uid = snapshot.uid THEN snapshot ELSE cache[i]]
               ELSE Append(cache, snapshot)
    IN IF Len(put) > CACHE_MAX
       THEN SubSeq(put, CACHE_EVICT + 1, Len(put))
       ELSE put

\* variant of _get_cached_email that answers a miss with the newest entry
\* (C10 fails under it)
get_cached_email_Stale(cache, uid) ==
    IF cache = <<>> THEN NoSnapshot ELSE cache[Len(cache)]

\* _get_cached_email: self._email_cache.get(uid)
get_cached_email(cache, uid) ==
    IF uid \in CachedUids(cache)
    THEN cache[CHOOSE i \in DOMAIN cache : cache[i].uid = uid]
    ELSE NoSnapshot

(***************************************************************************)
(* ServiceManager._dispatch_notification                                   *)
(***************************************************************************)
\* self._bot_handler: _init_bot builds it iff there is a Telegram notifier
bot_handler == notifiers > 0

\* a positional call with nargs arguments of a function of nparams
\* parameters is a TypeError when nargs > nparams
CallAccepted(nargs, nparams) == nargs <= nparams

Event(e) == [e |-> e, out |-> NoOut]

NoDispatch == [pc |-> "idle", snapshot |-> NoSnapshot, mode |-> "raw",
               ai_result |-> NoResult, reply |-> "none", idx |-> 0,
               success_count |-> 0, trace |-> <<>>, done |-> FALSE,
               calls |-> <<>>]

NoCb == [kind |-> "none", uid |-> 0, answered |-> FALSE, edits |-> <<>>,
         typing |-> FALSE, aiCalls |-> 0, sends |-> <<>>, raised |-> FALSE,
         req |-> "none", ack |-> "none", writes |-> 0, io |-> "none",
         account |-> ""]

\* variant of DispatchNeedsAI that also analyses in hybrid mode (C7 fails
\* under it)
DispatchNeedsAI_NotRaw(m) == m # "raw"

\* line 305
DispatchNeedsAI(m) == m = "agent"

\* ServiceManager.__init__ (_init_notifiers, _init_bot) and
\* TelegramBotHandler.__init__, for the case that the handler could be built,
\* i.e. that the ai configuration object carries the `language` its
\* constructor reads; then the state after `fill` earlier dispatches of
\* work mail.
InitDispatch ==
    /\ notifiers \in 0..MaxNotifiers
    /\ ai_enabled \in BOOLEAN
    /\ mode \in (IF notifiers > 0 /\ ai_enabled THEN Modes ELSE {"raw"})
    /\ \E fill \in (IF notifiers > 0 THEN {0, CACHE_MAX} ELSE {0}) :
          /\ email_cache = [i \in 1..fill |-> SnapshotOf(i, "work")]
          /\ nextUid = [a \in Accounts |-> IF a = "work" THEN fill + 1 ELSE 1]
          /\ budget = IF fill = 0 THEN MaxDispatches ELSE Backlog
    /\ total_forwarded = 0
    /\ disp = NoDispatch
    /\ cb = NoCb

\* lines 289-302: _poll_cycle hands over the next snapshot of some account;
\* the mode is read and the snapshot is cached
DispatchBegin ==
    /\ disp.pc = "idle"
    /\ budget > 0
    /\ \E a \in Accounts :
         LET snapshot == SnapshotOf(nextUid[a], a)
             current_mode == IF bot_handler THEN mode ELSE "raw"
         IN /\ nextUid' = [nextUid EXCEPT ![a] = @ + 1]
            /\ email_cache' = IF bot_handler
                              THEN cache_email(email_cache, snapshot)
                              ELSE email_cache
            /\ disp' = [NoDispatch EXCEPT
                       !.pc = IF bot_handler /\ DispatchNeedsAI(current_mode)
                              THEN "ai" ELSE "send",
                       !.snapshot = snapshot,
                       !.mode = current_mode,
                       !.idx = 1,
                       !.trace = IF bot_handler THEN <<Event("cache")>> ELSE <<>>]
    /\ budget' = budget - 1
    /\ cb' = NoCb
    /\ UNCHANGED <<notifiers, ai_enabled, mode, total_forwarded>>
    /\ UNCHANGED NotDispatch

\* lines 304-314: analyze_email(config=self._config.ai)
DispatchAI ==
    /\ disp.pc = "ai"
    /\ \E reply \in LLMReplies :
         disp' = [disp EXCEPT !.pc = "send",
                        !.ai_result = analyze_email(ai_enabled, reply),
                        !.reply = IF ai_enabled THEN reply ELSE "disabled",
                        !.trace = Append(@, Event("ai"))]
    /\ cb' = NoCb
    /\ UNCHANGED <<notifiers, ai_enabled, mode, email_cache, total_forwarded,
                   nextUid, budget>>
    /\ UNCHANGED NotDispatch

\* variant of ModeAtSend that reads the handler's mode again at each call
\* (C13 fails under it)
ModeAtSend_Reread(captured, current) == current

\* line 320: the mode argument is the local current_mode of line 298
ModeAtSend(captured, current) == captured

\* lines 316-337: one round of the loop over self._notifiers. Line 320
\* passes DISPATCH_ARGS arguments to send_with_mode, which takes
\* SEND_WITH_MODE_PARAMS; an exception of the call is caught at line 332.
DispatchSend ==
    /\ disp.pc = "send"
    /\ disp.idx <= notifiers
    /\ LET m == ModeAtSend(disp.mode, mode)
       IN IF ~CallAccepted(DISPATCH_ARGS, SEND_WITH_MODE_PARAMS)
          THEN disp' = [disp EXCEPT !.idx = @ + 1,
                              !.calls = Append(@, m),
                              !.trace = Append(@, Event("TypeError"))]
          ELSE \E api \in BOOLEAN :
              LET out == send_with_mode(disp.snapshot, m, disp.ai_result)
                  ok == ~out.raised /\ api
              IN disp' = [disp EXCEPT
                         !.idx = @ + 1,
                         !.calls = Append(@, m),
                         !.success_count = IF ok THEN @ + 1 ELSE @,
                         !.trace = Append(@, [e |-> IF out.raised THEN "raise"
                                                    ELSE "send",
                                              out |-> out])]
    /\ cb' = NoCb
    /\ UNCHANGED <<notifiers, ai_enabled, mode, email_cache, total_forwarded,
                   nextUid, budget>>
    /\ UNCHANGED NotDispatch

\* variant of Forwarded that counts every dispatch (C38 fails under it)
Forwarded_Always(success_count) == TRUE

\* line 339: if success_count > 0
Forwarded(success_count) == success_count > 0

\* lines 339-353
DispatchEnd ==
    /\ disp.pc = "send"
    /\ disp.idx > notifiers
    /\ total_forwarded' = IF Forwarded(disp.success_count)
                          THEN total_forwarded + 1
                          ELSE total_forwarded
    /\ disp' = [disp EXCEPT !.pc = "idle", !.done = TRUE]
    /\ cb' = NoCb
    /\ UNCHANGED <<notifiers, ai_enabled, mode, email_cache, nextUid, budget>>
    /\ UNCHANGED NotDispatch

(***************************************************************************)
(* TelegramBotHandler: summary and translate callbacks. The interaction    *)
(* thread handles one update at a time; the dispatcher may be anywhere in  *)
(* _dispatch_notification meanwhile.                                       *)
(***************************************************************************)
\* the uids a callback token may name: the first one, the latest one of
\* each account, and one no account has returned yet
CbUids == {u \in {1} \cup {nextUid[a] - 1 : a \in Accounts}
                     \cup {nextUid[a] : a \in Accounts} : u > 0}

\* what the thread of the last dispatch did is forgotten once it is over
DispatchLog == IF disp.pc = "idle" THEN NoDispatch ELSE disp

\* _cb_summary, lines 642-703: uid = data.replace("summ_", "")
CbSummary ==
    /\ bot_handler
    /\ \E token \in {SummToken(u) : u \in CbUids}, reply \in LLMReplies :
         LET snapshot == get_cached_email(email_cache, token.uid)
             result == analyze_email(ai_enabled, reply)
         IN cb' = IF ~IsSnapshot(snapshot)
                  THEN [NoCb EXCEPT !.kind = "summ", !.uid = token.uid,
                                    !.answered = TRUE,
                                    !.edits = <<"summary_expired">>]
                  ELSE [NoCb EXCEPT !.kind = "summ", !.uid = token.uid,
                                    !.answered = TRUE, !.typing = TRUE,
                                    !.account = snapshot.account,
                                    !.aiCalls = 1,
                                    !.sends = <<[shape |-> "summary",
                                                 result |-> result]>>]
    /\ disp' = DispatchLog
    /\ UNCHANGED <<notifiers, ai_enabled, mode, email_cache, total_forwarded,
                   nextUid, budget>>
    /\ UNCHANGED NotDispatch

\* lines 753-756: the line under the heading of the translation message
TranslationLine(result) ==
    IF "translation" \in DOMAIN result /\ result.translation # "None"
    THEN "translation"
    ELSE "No translation available"

\* _cb_translate, lines 705-771: uid = data.replace("trans_", ""); line 753
\* reads result.translation
CbTranslate ==
    /\ bot_handler
    /\ \E token \in {[kind |-> "trans", uid |-> u] : u \in CbUids},
          reply \in LLMReplies :
         LET snapshot == get_cached_email(email_cache, token.uid)
             result == analyze_email(ai_enabled, reply)
         IN cb' = IF ~IsSnapshot(snapshot)
                  THEN [NoCb EXCEPT !.kind = "trans", !.uid = token.uid,
                                    !.answered = TRUE,
                                    !.edits = <<"translation_expired">>]
                  ELSE IF HasAttr("translation")
                  THEN [NoCb EXCEPT !.kind = "trans", !.uid = token.uid,
                                    !.answered = TRUE, !.typing = TRUE,
                                    !.account = snapshot.account,
                                    !.aiCalls = 1,
                                    !.sends = <<[shape |-> "translation",
                                                 text |-> TranslationLine(result),
                                                 result |-> result]>>]
                  ELSE [NoCb EXCEPT !.kind = "trans", !.uid = token.uid,
                                    !.answered = TRUE, !.typing = TRUE,
                                    !.account = snapshot.account,
                                    !.aiCalls = 1,
                                    !.raised = TRUE]
    /\ disp' = DispatchLog
    /\ UNCHANGED <<notifiers, ai_enabled, mode, email_cache, total_forwarded,
                   nextUid, budget>>
    /\ UNCHANGED NotDispatch

NextDispatch ==
    \/ DispatchBegin
    \/ DispatchAI
    \/ DispatchSend
    \/ DispatchEnd
    \/ CbSummary
    \/ CbTranslate

(***************************************************************************)
(* TelegramBotHandler: the mode switch callback and the configuration      *)
(* file it writes through to.                                              *)
(***************************************************************************)
\* the names a callback "mode_<name>" may carry: the members of
\* OperationMode and one the enum rejects
ModeNames == Modes \cup {"turbo"}

\* the content of a file json.loads cannot read
Unreadable == "unreadable"

\* how the file system answers _persist_ai_config: read and write succeed;
\* read_text raises; write_text raises before the file is opened; write_text
\* raises after the file was opened for writing (and so emptied)
PersistOutcomes == {"ok", "read_error", "write_error", "write_cut"}

\* _persist_ai_config, lines 157-174, as far as ai.default_mode goes: m is
\* self.mode at line 167
persist_ai_config(file, m, outcome) ==
    IF ~file.exists THEN file
    ELSE IF outcome = "read_error" \/ file.default_mode = Unreadable THEN file
    ELSE IF outcome = "write_error" THEN file
    ELSE IF outcome = "write_cut" THEN [file EXCEPT !.default_mode = Unreadable]
    ELSE [file EXCEPT !.default_mode = m]

\* the number of write_text calls of one _persist_ai_config
persist_writes(file, outcome) ==
    IF file.exists /\ outcome # "read_error" /\ file.default_mode # Unreadable
    THEN 1 ELSE 0

\* how one _persist_ai_config ended
persist_result(file, outcome) ==
    IF ~file.exists THEN "missing"
    ELSE IF file.default_mode = Unreadable THEN "read_error"
    ELSE outcome

\* variant of the guard of line 623 that treats every request as a change
\* (C11 fails under it)
SameMode_Never(new_mode, old_mode) == FALSE

\* line 623
SameMode(new_mode, old_mode) == new_mode = old_mode

\* _cb_mode_switch, lines 606-640
CbModeSwitch ==
    /\ bot_handler
    /\ \E name \in ModeNames, outcome \in PersistOutcomes :
         IF name \notin Modes
         THEN /\ cb' = [NoCb EXCEPT !.kind = "mode", !.req = name,
                                    !.answered = TRUE, !.ack = "invalid"]
              /\ UNCHANGED <<mode, config_file>>
         ELSE IF SameMode(name, mode)
         THEN /\ cb' = [NoCb EXCEPT !.kind = "mode", !.req = name,
                                    !.answered = TRUE, !.ack = "already"]
              /\ UNCHANGED <<mode, config_file>>
         ELSE /\ mode' = name
              /\ config_file' = persist_ai_config(config_file, name, outcome)
              /\ cb' = [NoCb EXCEPT !.kind = "mode", !.req = name,
                                    !.answered = TRUE, !.ack = "switched",
                                    !.writes = persist_writes(config_file,
                                                              outcome),
                                    !.io = persist_result(config_file,
                                                          outcome),
                                    !.edits = <<"settings_main">>]
    /\ disp' = DispatchLog
    /\ UNCHANGED <<notifiers, ai_enabled, email_cache, total_forwarded,
                   nextUid, budget>>
    /\ UNCHANGED NotBot

\* the configuration store: the file AppConfig.load read at start-up
\* (main.py, --config, by default config.json in the working directory)
StoredMode(file) ==
    IF ~file.is_store THEN file.loaded
    ELSE IF file.exists THEN file.default_mode
    ELSE "none"

\* a handler built by _init_bot (manager.py line 168) from the loaded
\* configuration. The handler is given no path, so it writes to
\* CONFIG_PATH, "config.json" relative to the working directory (bot.py
\* lines 39 and 54): that is the store unless --config named another file,
\* and it may have been removed since it was loaded.
InitMode ==
    /\ notifiers = 1
    /\ ai_enabled \in BOOLEAN
    /\ \E stored \in Modes :
          /\ mode = IF ai_enabled THEN stored ELSE "raw"
          /\ config_file \in
                {[exists |-> x, default_mode |-> stored, is_store |-> TRUE,
                  loaded |-> stored] : x \in BOOLEAN}
                \cup {[exists |-> FALSE, default_mode |-> "raw",
                       is_store |-> FALSE, loaded |-> stored]}
    /\ email_cache = <<>>
    /\ nextUid = [a \in Accounts |-> 1]
    /\ budget = ModeDispatches
    /\ total_forwarded = 0
    /\ disp = NoDispatch
    /\ cb = NoCb

NextMode ==
    \/ DispatchBegin
    \/ DispatchAI
    \/ DispatchSend
    \/ DispatchEnd
    \/ CbModeSwitch

(***************************************************************************)
(* The pending cache near its bound: raw dispatches register snapshots of  *)
(* both accounts, new uids and uids that are already cached.               *)
(***************************************************************************)
\* the state after `fill` dispatches of work mail with uids 1..fill
InitCache ==
    /\ notifiers = 1
    /\ ai_enabled = FALSE
    /\ mode = "raw"
    /\ \E fill \in (CACHE_MAX - CacheRoom)..CACHE_MAX :
          /\ email_cache = [i \in 1..fill |-> SnapshotOf(i, "work")]
          /\ nextUid = [a \in Accounts |-> IF a = "work" THEN fill + 1 ELSE 1]
    /\ budget = CacheRegs
    /\ total_forwarded = 0
    /\ disp = NoDispatch
    /\ cb = NoCb

NextCache ==
    \/ DispatchBegin
    \/ DispatchSend
    \/ DispatchEnd

(***************************************************************************)
(* ServiceManager: start, stop, reload_config on the control thread, and   *)
(* _main_loop and _poll_cycle on each worker thread. A fetch is the call   *)
(* of fetch_new_emails as a whole: how it ends and what it returns.        *)
(***************************************************************************)
Workers == 1..MaxStarts

AccountIdx == 1..NumAccounts

NoWorker == [pc |-> "unborn", idx |-> 0, all_snapshots |-> <<>>,
             handed |-> <<>>, results |-> <<>>, cut |-> "none"]

\* a worker is alive from Thread.start() until _main_loop returns
Alive(w) == workers[w].pc \notin {"unborn", "exited"}

\* a worker is inside _poll_cycle
InCycle(w) == workers[w].pc \in {"fetch", "in_fetch", "dispatch", "in_dispatch"}

NoCtl == [op |-> "none", pc |-> "none", was_running |-> FALSE]

\* how a call of fetch_new_emails may end for a fetcher in state st
\* (fetcher.py lines 117-196); "stopped" needs the stop event
FetchOutcomes(st, on, stop) ==
    IF st \in Terminal THEN {"short_circuit"}
    ELSE IF ~on THEN {"not_enabled"}
    ELSE {"success", "exhausted", "auth", "unexpected"}
            \cup (IF stop THEN {"stopped"} ELSE {})

Failures == {"exhausted", "auth", "unexpected"}

\* the fetcher state a call leaves behind
StateAfter(st, outcome) ==
    CASE outcome \in {"success", "stopped"} -> "idle"
      [] outcome \in {"exhausted", "unexpected"} -> "error"
      [] outcome = "auth" -> "auth_failed"
      [] OTHER -> st

\* variant of Propagates in which an unexpected error leaves
\* fetch_new_emails (C15 fails under it)
Propagates_Unexpected(outcome) == outcome = "unexpected"

\* fetch_new_emails catches MailboxLoginError, the network errors and
\* Exception (lines 139, 153, 175): no outcome raises into _poll_cycle
Propagates(outcome) == FALSE

\* ids of the next n snapshots the servers hold
NextSnaps(n) == [i \in 1..n |-> (MaxSnaps - inbox) + i]

\* ServiceManager.__init__, lines 57-80: stopped, no worker; the servers
\* hold no new mail
InitService ==
    /\ svc_state = "stopped"
    /\ svc_stop_event = FALSE
    /\ thread = 0
    /\ workers = [w \in Workers |-> NoWorker]
    /\ statuses \in [AccountIdx -> [enabled : BOOLEAN, state : {"idle"}]]
    /\ bot_thread \in {[handler |-> h, alive |-> FALSE, stop |-> FALSE] :
                         h \in BOOLEAN}
    /\ ctl = NoCtl
    /\ inbox = 0
    /\ ops = MaxOps

\* the service after its first start(): one worker at the head of
\* _main_loop, new mail on the servers, and a stop() still to come
InitTick ==
    /\ svc_state = "running"
    /\ svc_stop_event = FALSE
    /\ thread = 1
    /\ workers = [w \in Workers |->
                    IF w = 1 THEN [NoWorker EXCEPT !.pc = "top"] ELSE NoWorker]
    /\ statuses \in [AccountIdx -> [enabled : BOOLEAN, state : {"idle"}]]
    /\ bot_thread \in {[handler |-> h, alive |-> h, stop |-> FALSE] :
                         h \in BOOLEAN}
    /\ ctl = NoCtl
    /\ inbox = MaxSnaps
    /\ ops = 1

\* TelegramBotHandler.start, bot.py lines 180-195
bot_start(b) ==
    IF ~b.handler \/ b.alive THEN b
    ELSE [b EXCEPT !.alive = TRUE, !.stop = FALSE]

\* ServiceManager.start as far as the manager goes, lines 181-203, for the
\* worker w it creates
DoStart(w) ==
    /\ svc_state' = "running"
    /\ svc_stop_event' = FALSE
    /\ thread' = w
    /\ workers' = [workers EXCEPT ![w] = [NoWorker EXCEPT !.pc = "top"]]
    /\ bot_thread' = bot_start(bot_thread)

\* start()
Start ==
    /\ ctl.op = "none"
    /\ ops > 0
    /\ ops' = ops - 1
    /\ IF svc_state = "running"
       THEN UNCHANGED <<svc_state, svc_stop_event, thread, workers, bot_thread>>
       ELSE \E w \in Workers :
              /\ workers[w].pc = "unborn"
              /\ \A v \in Workers : v < w => workers[v].pc # "unborn"
              /\ DoStart(w)
    /\ UNCHANGED <<statuses, ctl, inbox>>
    /\ UNCHANGED NotService

\* stop(), lines 205-218: the state check, both stop events
DoStopBegin(op, was) ==
    IF svc_state # "running"
    THEN /\ ctl' = IF op = "reload" THEN [op |-> op, pc |-> "init",
                                          was_running |-> was]
                   ELSE NoCtl
         /\ UNCHANGED <<svc_state, svc_stop_event, bot_thread>>
    ELSE /\ svc_state' = "stopping"
         /\ svc_stop_event' = TRUE
         /\ bot_thread' = IF bot_thread.handler
                          THEN [bot_thread EXCEPT !.stop = TRUE]
                          ELSE bot_thread
         /\ ctl' = [op |-> op, pc |-> "bot_join", was_running |-> was]

Stop ==
    /\ ctl.op = "none"
    /\ ops > 0
    /\ ops' = ops - 1
    /\ DoStopBegin("stop", FALSE)
    /\ UNCHANGED <<thread, workers, statuses, inbox>>
    /\ UNCHANGED NotService

\* reload_config(), lines 227-232
Reload ==
    /\ ctl.op = "none"
    /\ ops > 0
    /\ ops' = ops - 1
    /\ DoStopBegin("reload", svc_state = "running")
    /\ UNCHANGED <<thread, workers, statuses, inbox>>
    /\ UNCHANGED NotService

\* TelegramBotHandler.stop, bot.py lines 199-201: join(timeout=10) returns
\* when the poller has exited or when the time is up
JoinBot ==
    /\ ctl.pc = "bot_join"
    /\ ctl' = [ctl EXCEPT !.pc = "join"]
    /\ UNCHANGED <<svc_state, svc_stop_event, thread, workers, statuses,
                   bot_thread, inbox, ops>>
    /\ UNCHANGED NotService

\* a worker is inside a call that may outlast a join: a fetch (its
\* connections, its backoff waits) or a dispatch (the completion call, the
\* notifier calls); everywhere else it tests the stop event within a second
InCall(w) == workers[w].pc \in {"in_fetch", "in_dispatch"}

\* lines 219-225: join(timeout=30) returns when the worker has exited, or
\* when the time is up while the worker is still inside a call; then the
\* state is set
JoinWorker ==
    /\ ctl.pc = "join"
    /\ thread = 0 \/ ~Alive(thread) \/ InCall(thread)
    /\ svc_state' = "stopped"
    /\ ctl' = IF ctl.op = "reload" THEN [ctl EXCEPT !.pc = "init"] ELSE NoCtl
    /\ UNCHANGED <<svc_stop_event, thread, workers, statuses, bot_thread,
                   inbox, ops>>
    /\ UNCHANGED NotService

\* reload_config, lines 234-240: _init_notifiers, _init_fetchers, _init_bot
\* build new fetchers (in the list the workers iterate over) and a new
\* handler, then start() if the service was running
Reinit ==
    /\ ctl.pc = "init"
    /\ statuses' = [i \in AccountIdx |-> [statuses[i] EXCEPT !.state = "idle"]]
    /\ LET fresh == [bot_thread EXCEPT !.alive = FALSE, !.stop = FALSE]
       IN IF ctl.was_running
          THEN \E w \in Workers :
                 /\ workers[w].pc = "unborn"
                 /\ \A v \in Workers : v < w => workers[v].pc # "unborn"
                 /\ svc_state' = "running"
                 /\ svc_stop_event' = FALSE
                 /\ thread' = w
                 /\ workers' = [workers EXCEPT
                                  ![w] = [NoWorker EXCEPT !.pc = "top"]]
                 /\ bot_thread' = bot_start(fresh)
          ELSE /\ bot_thread' = fresh
               /\ UNCHANGED <<svc_state, svc_stop_event, thread, workers>>
    /\ ctl' = NoCtl
    /\ UNCHANGED <<inbox, ops>>
    /\ UNCHANGED NotService

\* _poll_loop, bot.py lines 212-231: the poller sees its stop event when
\* get_updates has returned
BotExit ==
    /\ bot_thread.alive
    /\ bot_thread.stop
    /\ bot_thread' = [bot_thread EXCEPT !.alive = FALSE]
    /\ UNCHANGED <<svc_state, svc_stop_event, thread, workers, statuses, ctl,
                   inbox, ops>>
    /\ UNCHANGED NotService

\* _main_loop, line 255: leave, or enter _poll_cycle (lines 270-272)
WTop ==
    \E w \in Workers :
      /\ workers[w].pc = "top"
      /\ workers' = [workers EXCEPT ![w] =
                       IF svc_stop_event
                       THEN [NoWorker EXCEPT !.pc = "exited"]
                       ELSE [NoWorker EXCEPT !.pc = "fetch", !.idx = 1]]
      /\ UNCHANGED <<svc_state, svc_stop_event, thread, statuses, bot_thread,
                     ctl, inbox, ops>>
      /\ UNCHANGED NotService

\* lines 272-277 and 281-282: the head of the loop over the fetchers
WFetchHead ==
    \E w \in Workers :
      LET me == workers[w]
      IN /\ me.pc = "fetch"
         /\ workers' = [workers EXCEPT ![w] =
               IF me.idx <= NumAccounts /\ ~svc_stop_event
               THEN [me EXCEPT !.pc = "in_fetch"]
               ELSE [me EXCEPT
                       !.cut = IF me.idx <= NumAccounts THEN "fetch" ELSE @,
                       !.pc = IF me.all_snapshots = <<>> THEN "sleep"
                              ELSE "dispatch",
                       !.idx = 1]]
         /\ UNCHANGED <<svc_state, svc_stop_event, thread, statuses,
                        bot_thread, ctl, inbox, ops>>
         /\ UNCHANGED NotService

\* lines 276-279: fetch_new_emails returns; an exception would end the
\* cycle at line 259
WFetchReturn ==
    \E w \in Workers :
      LET me == workers[w]
          st == statuses[me.idx]
      IN /\ me.pc = "in_fetch"
         /\ \E outcome \in FetchOutcomes(st.state, st.enabled, svc_stop_event),
               n \in 0..inbox :
              /\ (outcome # "success") => n = 0
              /\ statuses' = [statuses EXCEPT ![me.idx].state =
                                               StateAfter(@, outcome)]
              /\ inbox' = inbox - n
              /\ workers' = [workers EXCEPT ![w] =
                    IF Propagates(outcome)
                    THEN [me EXCEPT !.pc = "sleep",
                                    !.results = Append(@, outcome),
                                    !.cut = "raised"]
                    ELSE [me EXCEPT !.pc = "fetch",
                                    !.idx = @ + 1,
                                    !.results = Append(@, outcome),
                                    !.all_snapshots = @ \o NextSnaps(n)]]
         /\ UNCHANGED <<svc_state, svc_stop_event, thread, bot_thread, ctl,
                        ops>>
         /\ UNCHANGED NotService

\* lines 284-287: the head of the loop over all_snapshots
WDispatchHead ==
    \E w \in Workers :
      LET me == workers[w]
      IN /\ me.pc = "dispatch"
         /\ workers' = [workers EXCEPT ![w] =
               IF me.idx <= Len(me.all_snapshots) /\ ~svc_stop_event
               THEN [me EXCEPT !.pc = "in_dispatch"]
               ELSE [me EXCEPT
                       !.cut = IF me.idx <= Len(me.all_snapshots)
                               THEN "dispatch" ELSE @,
                       !.pc = "sleep"]]
         /\ UNCHANGED <<svc_state, svc_stop_event, thread, statuses,
                        bot_thread, ctl, inbox, ops>>
         /\ UNCHANGED NotService

\* line 287: _dispatch_notification(snapshot) returns
WDispatchReturn ==
    \E w \in Workers :
      LET me == workers[w]
      IN /\ me.pc = "in_dispatch"
         /\ workers' = [workers EXCEPT ![w] =
               [me EXCEPT !.pc = "dispatch",
                          !.idx = @ + 1,
                          !.handed = Append(@, me.all_snapshots[me.idx])]]
         /\ UNCHANGED <<svc_state, svc_stop_event, thread, statuses,
                        bot_thread, ctl, inbox, ops>>
         /\ UNCHANGED NotService

\* lines 262-265: the interval has passed, or the stop event ended it
WSleep ==
    \E w \in Workers :
      /\ workers[w].pc = "sleep"
      /\ workers' = [workers EXCEPT ![w].pc = "top"]
      /\ UNCHANGED <<svc_state, svc_stop_event, thread, statuses, bot_thread,
                     ctl, inbox, ops>>
      /\ UNCHANGED NotService

\* the life cycle calls and the workers they leave behind, without mail
NextService ==
    \/ Start
    \/ Stop
    \/ Reload
    \/ JoinBot
    \/ JoinWorker
    \/ Reinit
    \/ BotExit
    \/ WTop
    \/ WFetchHead
    \/ WFetchReturn
    \/ WSleep

\* one worker polling and dispatching, and a stop()
NextTick ==
    \/ Stop
    \/ JoinBot
    \/ JoinWorker
    \/ BotExit
    \/ WTop
    \/ WFetchHead
    \/ WFetchReturn
    \/ WDispatchHead
    \/ WDispatchReturn
    \/ WSleep

(***************************************************************************)
(* The locks of TelegramBotHandler (_mode_lock, _lang_lock,                *)
(* _ai_enabled_lock, _cache_lock, _rules_lock) and of ServiceManager       *)
(* (_state_lock, _total_forwarded_lock). An operation is the sequence of   *)
(* `with` blocks its thread enters, each with the locks taken inside it.   *)
(***************************************************************************)
Locks == {"mode", "lang", "ai_enabled", "cache", "rules", "state",
          "total_forwarded"}

TaskIds == {"poll", "bot", "ctl"}

\* `with` blocks that take no lock inside
Flat(ls) == [i \in DOMAIN ls |-> [lock |-> ls[i], inner |-> <<>>]]

\* _persist_ai_config, bot.py lines 165-167 and 172: the property getters
persist_locks == <<"lang", "ai_enabled", "mode", "lang", "mode", "ai_enabled">>

\* the operations of each thread
OpsOf(t) ==
    CASE t = "poll" -> {"dispatch"}
      [] t = "bot" -> {"mode_switch", "language_switch", "summary", "rules",
                       "settings"}
      [] OTHER -> {"start", "stop", "status", "total"}

\* variant of Sections in which the mode setter persists while it holds the
\* mode lock (C19 fails under it)
Sections_PersistInSetter(op) ==
    CASE op = "dispatch" -> Flat(<<"mode", "cache", "total_forwarded">>)
      [] op = "mode_switch" ->
            Flat(<<"mode">>)
               \o <<[lock |-> "mode", inner |-> <<"lang", "ai_enabled">>]>>
               \o Flat(<<"mode", "lang">>)
      [] op = "language_switch" ->
            Flat(<<"lang", "lang", "lang">> \o persist_locks
                    \o <<"mode", "lang">>)
      [] op = "summary" -> Flat(<<"cache", "lang", "ai_enabled">>)
      [] op = "rules" -> Flat(<<"rules">>)
      [] op = "settings" -> Flat(<<"mode", "lang">>)
      [] op = "start" -> Flat(<<"state">>)
      [] op = "stop" -> Flat(<<"state", "state">>)
      [] op = "status" -> Flat(<<"state">>)
      [] OTHER -> Flat(<<"total_forwarded">>)

\* the `with` blocks of each operation, in the order it enters them:
\* _dispatch_notification (manager.py 298, 302, 340); _cb_mode_switch
\* (bot.py 622, 627, 631, 639); _cb_language_switch (582, 589, 590, 595,
\* 603); _cb_summary and _cb_translate (654, 667 with 829-830);
\* _handle_message, _cmd_rules and the rules buttons (287, 320, 330, 544,
\* 553); _cmd_settings (301-302); start (manager.py 183), stop (207, 222),
\* the state and total_forwarded properties (88, 101)
Sections(op) ==
    CASE op = "dispatch" -> Flat(<<"mode", "cache", "total_forwarded">>)
      [] op = "mode_switch" ->
            Flat(<<"mode", "mode">> \o persist_locks \o <<"mode", "lang">>)
      [] op = "language_switch" ->
            Flat(<<"lang", "lang", "lang">> \o persist_locks
                    \o <<"mode", "lang">>)
      [] op = "summary" -> Flat(<<"cache", "lang", "ai_enabled">>)
      [] op = "rules" -> Flat(<<"rules">>)
      [] op = "settings" -> Flat(<<"mode", "lang">>)
      [] op = "start" -> Flat(<<"state">>)
      [] op = "stop" -> Flat(<<"state", "state">>)
      [] op = "status" -> Flat(<<"state">>)
      [] OTHER -> Flat(<<"total_forwarded">>)

NoTask == [op |-> "none", todo |-> <<>>, held |-> <<>>, inner |-> <<>>]

\* the thread that holds lock l, if any
Holders(l) == {t \in TaskIds : \E i \in DOMAIN tasks[t].held :
                                  tasks[t].held[i] = l}

\* the lock a thread takes next, or "none"
Wants(t) ==
    LET me == tasks[t]
    IN IF me.held = <<>>
       THEN (IF me.todo = <<>> THEN "none" ELSE Head(me.todo).lock)
       ELSE (IF me.inner = <<>> THEN "none" ELSE Head(me.inner))

InitLocks == tasks = [t \in TaskIds |-> NoTask]

\* a thread enters an operation
LockBegin ==
    /\ \E t \in TaskIds, op \in UNION {OpsOf(u) : u \in TaskIds} :
         /\ op \in OpsOf(t)
         /\ tasks[t].todo = <<>>
         /\ tasks[t].held = <<>>
         /\ tasks' = [tasks EXCEPT ![t] = [NoTask EXCEPT !.op = op,
                                                        !.todo = Sections(op)]]
    /\ UNCHANGED NotLocks

\* threading.Lock.acquire (`with` entered): blocks while the lock is held,
\* by another thread or by the thread itself
LockAcquire ==
    /\ \E t \in TaskIds :
         LET me == tasks[t]
         IN /\ Wants(t) # "none"
            /\ Holders(Wants(t)) = {}
            /\ tasks' = [tasks EXCEPT ![t] =
                  IF me.held = <<>>
                  THEN [me EXCEPT !.held = <<Head(me.todo).lock>>,
                                  !.inner = Head(me.todo).inner,
                                  !.todo = Tail(me.todo)]
                  ELSE [me EXCEPT !.held = Append(@, Head(me.inner)),
                                  !.inner = Tail(me.inner)]]
    /\ UNCHANGED NotLocks

\* threading.Lock.release (`with` left)
LockRelease ==
    /\ \E t \in TaskIds :
         LET me == tasks[t]
         IN /\ me.held # <<>>
            /\ me.inner = <<>>
            /\ tasks' = [tasks EXCEPT ![t] =
                  [me EXCEPT !.held = SubSeq(@, 1, Len(@) - 1)]]
    /\ UNCHANGED NotLocks

NextLocks ==
    \/ LockBegin
    \/ LockAcquire
    \/ LockRelease

(***************************************************************************)
(* TelegramBotHandler: messages and the /rules conversation                *)
(* (_handle_message, _cmd_rules, _rules_add, _rules_delete, the rules_*    *)
(* buttons) and RulesManager (core/rules.py).                              *)
(***************************************************************************)
Chats == {"c1", "c2"}

\* message texts: the commands the router knows, a command it does not
\* know, and texts with and without a number
Texts == {"/rules", "/rules add", "/rules delete", "/settings", "/foo",
          "be brief", "2", "drop 1", "  "}

RulesButtons == {"rules_add", "rules_delete", "rules_close"}

\* lines 273-284: text.startswith(...) of /settings, /mode, /rules, /ai,
\* /help, /start
Command(text) ==
    CASE text \in {"/rules", "/rules add", "/rules delete"} -> "/rules"
      [] text = "/settings" -> "/settings"
      [] OTHER -> "none"

\* lines 316-317: parts = text.strip().split(maxsplit=1); parts[1] lowered
RulesSub(text) ==
    CASE text = "/rules add" -> "add"
      [] text = "/rules delete" -> "delete"
      [] OTHER -> ""

\* text.strip()
Strip(text) == IF text = "  " THEN "" ELSE text

\* line 387: re.search(r"\d+", text), 0 for no match
FirstNumber(text) ==
    CASE text = "2" -> 2
      [] text = "drop 1" -> 1
      [] OTHER -> 0

\* RulesManager.load_rules: the lines that are not empty after stripping
RECURSIVE load_rules(_)
load_rules(file) ==
    IF file = <<>> THEN <<>>
    ELSE IF Head(file) = "" THEN load_rules(Tail(file))
    ELSE <<Head(file)>> \o load_rules(Tail(file))

\* RulesManager.add_rule: load, append text.strip(), save
add_rule(file, text) == Append(load_rules(file), Strip(text))

\* RulesManager.delete_rule: load, pop(index - 1), save; FALSE for no rule
delete_ok(file, index) == index >= 1 /\ index <= Len(load_rules(file))

delete_rule(file, index) ==
    LET rules == load_rules(file)
    IN IF delete_ok(file, index)
       THEN SubSeq(rules, 1, index - 1) \o SubSeq(rules, index + 1, Len(rules))
       ELSE file

NoUpd == [kind |-> "none", chat |-> "none", text |-> "", was |-> "none",
          afterRules |-> FALSE, route |-> "none", reply |-> "none",
          raised |-> FALSE]

InitRules ==
    /\ rules_pending = [c \in Chats |-> "none"]
    /\ rules_file \in {<<>>, <<"be brief">>}
    /\ upd = NoUpd
    /\ cancelled = [c \in Chats |-> FALSE]

\* _cmd_rules, lines 319-337: the intent of the chat after /rules <sub>
PendingAfterRules(sub, pending) ==
    IF sub \in {"add", "delete"} THEN sub ELSE pending

\* variant of TakePending that reads the intent and leaves it (C29 fails
\* under it)
TakePending_Peek(pending) == pending

\* lines 287-288: self._rules_pending.pop(chat_id, None), what is left
TakePending(pending) == "none"

\* _handle_message, lines 264-293, with the handlers it calls; io: whether
\* rules.md can be written
HandleMessage ==
    /\ \E c \in Chats, text \in Texts, io \in {"ok", "error"} :
         LET was == rules_pending[c]
             me == [NoUpd EXCEPT !.kind = "text", !.chat = c, !.text = text,
                                 !.was = was, !.afterRules = cancelled[c]]
         IN /\ (was = "add" /\ Command(text) = "none" /\ io = "ok") =>
                  Len(rules_file) < MaxRules
            /\ CASE Command(text) = "/settings" ->
                      \* _cmd_settings
                      /\ upd' = [me EXCEPT !.route = "settings",
                                           !.reply = "settings_panel"]
                      /\ cancelled' = [cancelled EXCEPT ![c] = FALSE]
                      /\ UNCHANGED <<rules_pending, rules_file>>
                 [] Command(text) = "/rules" ->
                      \* _cmd_rules
                      /\ rules_pending' = [rules_pending EXCEPT ![c] =
                            PendingAfterRules(RulesSub(text), was)]
                      /\ upd' = [me EXCEPT !.route = "rules",
                                           !.reply = IF RulesSub(text) = ""
                                                     THEN "rules_list"
                                                     ELSE "send_me"]
                      /\ cancelled' = [cancelled EXCEPT ![c] = RulesSub(text) = ""]
                      /\ UNCHANGED rules_file
                 [] OTHER ->
                      \* lines 286-293
                      /\ rules_pending' = [rules_pending EXCEPT ![c] =
                                              TakePending(was)]
                      /\ cancelled' = [cancelled EXCEPT ![c] = FALSE]
                      /\ CASE was = "add" /\ io = "ok" ->
                                /\ rules_file' = add_rule(rules_file, text)
                                /\ upd' = [me EXCEPT !.route = "add",
                                                     !.reply = "added"]
                           [] was = "add" ->
                                \* write_text raises: the poll loop logs it
                                /\ UNCHANGED rules_file
                                /\ upd' = [me EXCEPT !.route = "add",
                                                     !.raised = TRUE]
                           [] was = "delete" /\ FirstNumber(text) = 0 ->
                                /\ UNCHANGED rules_file
                                /\ upd' = [me EXCEPT !.route = "delete",
                                                     !.reply = "send_a_number"]
                           [] was = "delete"
                                /\ ~delete_ok(rules_file, FirstNumber(text)) ->
                                /\ UNCHANGED rules_file
                                /\ upd' = [me EXCEPT !.route = "delete",
                                                     !.reply = "not_found"]
                           [] was = "delete" /\ io = "ok" ->
                                /\ rules_file' =
                                      delete_rule(rules_file, FirstNumber(text))
                                /\ upd' = [me EXCEPT !.route = "delete",
                                                     !.reply = "deleted"]
                           [] was = "delete" ->
                                /\ UNCHANGED rules_file
                                /\ upd' = [me EXCEPT !.route = "delete",
                                                     !.raised = TRUE]
                           [] OTHER ->
                                /\ UNCHANGED rules_file
                                /\ upd' = me
    /\ UNCHANGED NotRules

\* _handle_callback_query, lines 543-563: the buttons under the rules list
CbRules ==
    /\ \E c \in Chats, data \in RulesButtons :
         /\ rules_pending' =
               CASE data = "rules_add" -> [rules_pending EXCEPT ![c] = "add"]
                 [] data = "rules_delete" ->
                       [rules_pending EXCEPT ![c] = "delete"]
                 [] OTHER -> rules_pending
         /\ upd' = [NoUpd EXCEPT !.kind = "button", !.chat = c, !.text = data,
                                 !.was = rules_pending[c], !.route = data,
                                 !.reply = IF data = "rules_close"
                                           THEN "closed" ELSE "send_me"]
         /\ cancelled' = [cancelled EXCEPT ![c] = FALSE]
    /\ UNCHANGED rules_file
    /\ UNCHANGED NotRules

NextRules ==
    \/ HandleMessage
    \/ CbRules

(***************************************************************************)
(* core/ai.py: analyze_email, one call at a time, with everything its      *)
(* collaborators can do to it.                                             *)
(***************************************************************************)
\* AIAnalysisResult.category: the values its description lists and its
\* default
Categories == {"verification_code", "notification", "billing", "promotion",
               "personal"}
CATEGORY_DEFAULT == "notification"
\* AIAnalysisResult.priority: Field(default=3, ge=1, le=5)
PRIORITY_MIN == 1
PRIORITY_MAX == 5
PRIORITY_DEFAULT == 3

\* the fields AIConfig declares
AIConfigFields == {"enabled", "provider", "api_key", "model", "base_url",
                   "default_mode"}

\* A configuration, by what analyze_email reads of it: enabled, and
\* language. "absent" is the AIConfig of models.py, which has no such
\* attribute; the other values are a configuration object that carries the
\* attribute TelegramBotHandler reads and assigns.
Languages == {"absent", "auto", "zh"}
AIConfigs == [enabled : BOOLEAN, language : Languages]

\* reading config.f raises AttributeError unless the object has it
ConfigHasAttr(config, f) ==
    \/ f \in AIConfigFields
    \/ f = "language" /\ config.language # "absent"

\* import litellm and the lines that follow it in the first try block:
\* they pass, raise ImportError, raise FileNotFoundError (and then
\* _patch_litellm_cost_map passes or raises OSError, and the second import
\* passes or fails), or raise something else
Imports == {"ok", "ImportError", "other", "missing_patched",
            "missing_patch_raises", "missing_retry_fails"}

\* litellm.completion and response.choices[0].message.content
Completions == {"ok", "raises"}

\* "priority" of the reply's JSON object: missing, not a number, or an
\* integer
PriorityInputs ==
    {[kind |-> "missing", v |-> 0], [kind |-> "str", v |-> 0]}
    \cup {[kind |-> "int", v |-> n] : n \in {0, 1, 3, 5, 6}}

\* "category" of the reply's JSON object: missing, or a string
CategoryInputs == Categories \cup {"spam", "missing"}

\* message.content: None, "", white space, text that is not JSON, JSON that
\* is not an object, or a JSON object, bare or inside a markdown fence
NoField == [kind |-> "missing", v |-> 0]
Contents ==
    {[form |-> f, category |-> "missing", priority |-> NoField] :
        f \in {"None", "empty", "blank", "garbage", "array"}}
    \cup [form : {"object", "fenced"}, category : CategoryInputs,
          priority : PriorityInputs]

AIEnvs == [import : Imports, completion : Completions, reply : Contents]

\* how a call ends: a value, or an exception; parsed is the result
\* _parse_response gave the call, if it gave one
Ok(r) == [exc |-> "none", result |-> r, parsed |-> NoResult]
Exc(e) == [exc |-> e, result |-> NoResult, parsed |-> NoResult]

\* build_system_prompt, by how it ends: lang = config.language or "auto"
build_system_prompt(config) ==
    IF ConfigHasAttr(config, "language") THEN Ok(NoResult)
    ELSE Exc("AttributeError")

\* AIAnalysisResult.model_validate(data): a missing field takes its
\* default, category is any string, priority an integer within its bounds
model_validate(data) ==
    CASE data.form # "object" -> Exc("ValidationError")
      [] data.priority.kind = "str" -> Exc("ValidationError")
      [] /\ data.priority.kind = "int"
         /\ data.priority.v \notin PRIORITY_MIN..PRIORITY_MAX ->
            Exc("ValidationError")
      [] OTHER ->
            Ok([kind |-> "parsed",
                category |-> IF data.category = "missing"
                             THEN CATEGORY_DEFAULT ELSE data.category,
                priority |-> IF data.priority.kind = "missing"
                             THEN PRIORITY_DEFAULT ELSE data.priority.v,
                code |-> FALSE])

\* _parse_response: strip, take a markdown fence off, json.loads,
\* model_validate
_parse_response(raw) ==
    LET text == IF raw.form = "fenced" THEN [raw EXCEPT !.form = "object"]
                ELSE raw
    IN  IF text.form \in {"blank", "garbage"} THEN Exc("JSONDecodeError")
        ELSE model_validate(text)

\* the second try block of analyze_email: both of its handlers return
\* _default_result()
Complete(env) ==
    IF env.completion = "raises" THEN Ok(DefaultResult)
    ELSE IF env.reply.form \in {"None", "empty"} THEN Ok(DefaultResult)
    ELSE LET parsed == _parse_response(env.reply)
         IN  CASE parsed.exc # "none" -> Ok(DefaultResult)
               \* logger.info(..., result.source_language)
               [] ~HasAttr("source_language") ->
                    [Ok(DefaultResult) EXCEPT !.parsed = parsed.result]
               [] OTHER -> [parsed EXCEPT !.parsed = parsed.result]

\* analyze_email, whole: the enabled check, the first try block, the
\* unguarded construction of the prompt and of the parameters, the second
\* try block. rules_block is left out: it is appended to the prompt as it
\* is.
AnalyzeEmail(config, env) ==
    IF ~config.enabled THEN Ok(DefaultResult)
    ELSE CASE env.import = "ImportError" -> Ok(DefaultResult)
           [] env.import = "other" -> Exc("Exception")
           [] env.import = "missing_patch_raises" -> Exc("OSError")
           [] env.import = "missing_retry_fails" -> Ok(DefaultResult)
           [] OTHER ->
                LET prompt == build_system_prompt(config)
                IN  IF prompt.exc # "none" THEN prompt
                    ELSE Complete(env)

NoAI == [state |-> "idle", config |-> [enabled |-> FALSE, language |-> "absent"],
         env |-> [import |-> "ok", completion |-> "ok",
                  reply |-> [form |-> "None", category |-> "missing",
                             priority |-> NoField]],
         out |-> Ok(NoResult)]

InitAI ==
    ai \in [state : {"called"}, config : AIConfigs, env : AIEnvs,
            out : {Ok(NoResult)}]

\* analyze_email runs to its end
Analyze ==
    /\ ai.state = "called"
    /\ ai' = [ai EXCEPT !.state = "done",
                        !.out = AnalyzeEmail(ai.config, ai.env)]
    /\ UNCHANGED NotAI

\* the next call of the same process: its configuration and its
\* installation are what they were, the LLM answers as it likes
CallAnalyze ==
    /\ ai.state = "done"
    /\ \E completion \in Completions, reply \in Contents :
          ai' = [ai EXCEPT !.state = "called",
                           !.env.completion = completion,
                           !.env.reply = reply,
                           !.out = Ok(NoResult)]
    /\ UNCHANGED NotAI

NextAI ==
    \/ Analyze
    \/ CallAnalyze

(***************************************************************************)
(* TelegramBotHandler._poll_loop and the getUpdates side of the Bot API.   *)
(* The server numbers its updates 1, 2, ...; it forgets an update once a   *)
(* getUpdates call has carried an offset above its id.                     *)
(***************************************************************************)
UpdateIds == 1..MaxUpdates

\* __init__, line 76: no offset (0 stands for None), nothing in hand
\* handled counts the hand-overs of the handler in use, ever those of all
\* handlers the manager has built
NoPoller == [pc |-> "poll", offset |-> 0, batch |-> <<>>, sent |-> 0,
             confirmed |-> 0, handled |-> [i \in UpdateIds |-> 0],
             raised |-> {}, handlers |-> 1,
             ever |-> [i \in UpdateIds |-> 0]]

InitPoller == poller = NoPoller

\* a user sends a message or presses a button
UserSends ==
    /\ poller.sent < MaxUpdates
    /\ poller' = [poller EXCEPT !.sent = @ + 1]
    /\ UNCHANGED NotPoll

\* what the server has confirmed after a getUpdates with this offset
ConfirmedBy(confirmed, offset) ==
    IF offset = 0 \/ offset - 1 <= confirmed THEN confirmed ELSE offset - 1

\* the ids from..to in ascending order
Ascending(from, to) == [i \in 1..(to - from + 1) |-> from + i - 1]

\* lines 212-217 and TelegramNotifier.get_updates: the long poll returns
\* the updates that are not confirmed, oldest first, or, when the API call
\* fails, nothing; the server may have seen the offset all the same
GetUpdates ==
    /\ poller.pc = "poll"
    /\ \E answered \in BOOLEAN, reached \in BOOLEAN :
         LET confirmed == IF answered \/ reached
                          THEN ConfirmedBy(poller.confirmed, poller.offset)
                          ELSE poller.confirmed
             updates == IF answered THEN Ascending(confirmed + 1, poller.sent)
                        ELSE <<>>
         IN poller' = [poller EXCEPT
                         !.confirmed = confirmed,
                         !.batch = updates,
                         !.pc = IF updates = <<>> THEN "poll" ELSE "batch"]
    /\ UNCHANGED NotPoll

\* variant of OffsetAfter that asks for the same update again (C37 fails
\* under it)
OffsetAfter_Same(update_id) == update_id

\* line 221: self._offset = update_id + 1
OffsetAfter(update_id) == update_id + 1

\* lines 223-226: an exception of _handle_update is logged and the loop
\* goes on with the next update
OnHandleError(e) == "log"

\* lines 219-226: the loop body for the next update of the batch;
\* _handle_update returns or raises
HandleUpdate ==
    /\ poller.pc = "batch"
    /\ \E outcome \in {"ok", "raises"} :
         LET update_id == Head(poller.batch)
             rest == IF outcome = "raises" /\ OnHandleError("Exception") # "log"
                     THEN <<>> ELSE Tail(poller.batch)
         IN poller' = [poller EXCEPT
                         !.offset = OffsetAfter(update_id),
                         !.handled[update_id] = Min(@ + 1, 2),
                         !.ever[update_id] = Min(@ + 1, 2),
                         !.raised = IF outcome = "raises"
                                    THEN @ \cup {update_id} ELSE @,
                         !.batch = rest,
                         !.pc = IF rest = <<>> THEN "poll" ELSE "batch"]
    /\ UNCHANGED NotPoll

\* ServiceManager.reload_config: stop() ends the loop after the batch in
\* hand, _init_bot builds a new handler, whose offset is None, and start()
\* runs its loop
NewHandler ==
    /\ poller.pc = "poll"
    /\ poller.handlers < MaxHandlers
    /\ poller' = [poller EXCEPT
                    !.handlers = @ + 1,
                    !.offset = 0,
                    !.handled = [i \in UpdateIds |-> 0],
                    !.raised = {}]
    /\ UNCHANGED NotPoll

NextPoll ==
    \/ UserSends
    \/ GetUpdates
    \/ HandleUpdate
    \/ NewHandler

(***************************************************************************)
(* The specifications: each runs one component, the others are at rest.    *)
(***************************************************************************)
FetcherAtRest ==
    /\ InitFetcher
    /\ enabled
    /\ max_retries = 1

DispatchAtRest ==
    /\ notifiers = 0
    /\ ai_enabled = FALSE
    /\ mode = "raw"
    /\ email_cache = <<>>
    /\ total_forwarded = 0
    /\ nextUid = [a \in Accounts |-> 1]
    /\ budget = 0
    /\ disp = NoDispatch
    /\ cb = NoCb

NotifierAtRest == notif = NoNotif

ServiceAtRest ==
    /\ svc_state = "stopped"
    /\ svc_stop_event = FALSE
    /\ thread = 0
    /\ workers = [w \in Workers |-> NoWorker]
    /\ statuses = [i \in AccountIdx |-> [enabled |-> TRUE, state |-> "idle"]]
    /\ bot_thread = [handler |-> FALSE, alive |-> FALSE, stop |-> FALSE]
    /\ ctl = NoCtl
    /\ inbox = 0
    /\ ops = 0

LocksAtRest == tasks = [t \in TaskIds |-> NoTask]

AIAtRest == ai = NoAI

PollAtRest == poller = NoPoller

RulesAtRest ==
    /\ rules_pending = [c \in Chats |-> "none"]
    /\ rules_file = <<>>
    /\ upd = NoUpd
    /\ cancelled = [c \in Chats |-> FALSE]

ConfigAtRest ==
    config_file = [exists |-> TRUE, default_mode |-> "raw", is_store |-> TRUE,
                   loaded |-> "raw"]

InitFetch ==
    /\ AIAtRest
    /\ PollAtRest
    /\ RulesAtRest
    /\ LocksAtRest
    /\ ServiceAtRest
    /\ DispatchAtRest
    /\ NotifierAtRest
    /\ ConfigAtRest
    /\ InitFetcher

SpecFetch == InitFetch /\ [][NextFetch]_vars

InitScan ==
    /\ AIAtRest
    /\ PollAtRest
    /\ RulesAtRest
    /\ LocksAtRest
    /\ ServiceAtRest
    /\ DispatchAtRest
    /\ NotifierAtRest
    /\ ConfigAtRest
    /\ InitScanner

SpecScan == InitScan /\ [][NextScan]_vars

InitReset ==
    /\ AIAtRest
    /\ PollAtRest
    /\ RulesAtRest
    /\ LocksAtRest
    /\ ServiceAtRest
    /\ DispatchAtRest
    /\ NotifierAtRest
    /\ ConfigAtRest
    /\ InitResetter

SpecReset == InitReset /\ [][NextReset]_vars

InitDisp ==
    /\ AIAtRest
    /\ PollAtRest
    /\ RulesAtRest
    /\ LocksAtRest
    /\ ServiceAtRest
    /\ FetcherAtRest
    /\ NotifierAtRest
    /\ ConfigAtRest
    /\ InitDispatch

SpecDispatch == InitDisp /\ [][NextDispatch]_vars

InitNotif ==
    /\ AIAtRest
    /\ PollAtRest
    /\ RulesAtRest
    /\ LocksAtRest
    /\ ServiceAtRest
    /\ FetcherAtRest
    /\ DispatchAtRest
    /\ ConfigAtRest
    /\ InitNotifier

NextNotifier == NotifierSend

SpecNotifier == InitNotif /\ [][NextNotifier]_vars

InitCacheFill ==
    /\ AIAtRest
    /\ PollAtRest
    /\ RulesAtRest
    /\ LocksAtRest
    /\ ServiceAtRest
    /\ FetcherAtRest
    /\ NotifierAtRest
    /\ ConfigAtRest
    /\ InitCache

SpecCache == InitCacheFill /\ [][NextCache]_vars

InitSvc ==
    /\ AIAtRest
    /\ PollAtRest
    /\ RulesAtRest
    /\ LocksAtRest
    /\ FetcherAtRest
    /\ DispatchAtRest
    /\ NotifierAtRest
    /\ ConfigAtRest
    /\ InitService

SpecService == InitSvc /\ [][NextService]_vars

\* start() and stop() only, for a configuration with a Telegram notifier
\* and every account enabled
InitStop ==
    /\ AIAtRest
    /\ PollAtRest
    /\ RulesAtRest
    /\ LocksAtRest
    /\ FetcherAtRest
    /\ DispatchAtRest
    /\ NotifierAtRest
    /\ ConfigAtRest
    /\ InitService
    /\ bot_thread.handler
    /\ \A i \in AccountIdx : statuses[i].enabled

NextStop ==
    \/ Start
    \/ Stop
    \/ JoinBot
    \/ JoinWorker
    \/ BotExit
    \/ WTop
    \/ WFetchHead
    \/ WFetchReturn
    \/ WSleep

\* every call that is in flight returns: a join returns at the latest when
\* its timeout is up, get_updates returns, a fetch returns, a sleep of one
\* second ends. Nothing obliges the operator to call start or stop.
FairStop ==
    /\ WF_vars(JoinBot)
    /\ WF_vars(JoinWorker)
    /\ WF_vars(BotExit)
    /\ WF_vars(WTop)
    /\ WF_vars(WFetchHead)
    /\ WF_vars(WFetchReturn)
    /\ WF_vars(WSleep)

SpecStopFair == InitStop /\ [][NextStop]_vars /\ FairStop

InitPollTick ==
    /\ AIAtRest
    /\ PollAtRest
    /\ RulesAtRest
    /\ LocksAtRest
    /\ FetcherAtRest
    /\ DispatchAtRest
    /\ NotifierAtRest
    /\ ConfigAtRest
    /\ InitTick

SpecTick == InitPollTick /\ [][NextTick]_vars

InitConversation ==
    /\ FetcherAtRest
    /\ DispatchAtRest
    /\ NotifierAtRest
    /\ ConfigAtRest
    /\ ServiceAtRest
    /\ LocksAtRest
    /\ InitRules
    /\ AIAtRest
    /\ PollAtRest

SpecRules == InitConversation /\ [][NextRules]_vars

InitAnalysis ==
    /\ RulesAtRest
    /\ LocksAtRest
    /\ ServiceAtRest
    /\ FetcherAtRest
    /\ DispatchAtRest
    /\ NotifierAtRest
    /\ ConfigAtRest
    /\ PollAtRest
    /\ InitAI

SpecAI == InitAnalysis /\ [][NextAI]_vars

InitPolling ==
    /\ AIAtRest
    /\ RulesAtRest
    /\ LocksAtRest
    /\ ServiceAtRest
    /\ FetcherAtRest
    /\ DispatchAtRest
    /\ NotifierAtRest
    /\ ConfigAtRest
    /\ InitPoller

SpecPoll == InitPolling /\ [][NextPoll]_vars

InitLocking ==
    /\ AIAtRest
    /\ PollAtRest
    /\ RulesAtRest
    /\ FetcherAtRest
    /\ DispatchAtRest
    /\ NotifierAtRest
    /\ ConfigAtRest
    /\ ServiceAtRest
    /\ InitLocks

SpecLocks == InitLocking /\ [][NextLocks]_vars

InitModeSwitch ==
    /\ AIAtRest
    /\ PollAtRest
    /\ RulesAtRest
    /\ LocksAtRest
    /\ ServiceAtRest
    /\ FetcherAtRest
    /\ NotifierAtRest
    /\ InitMode

SpecMode == InitModeSwitch /\ [][NextMode]_vars

(***************************************************************************)
(* Properties of the poller (SpecFetch).                                   *)
(***************************************************************************)

\* C1: over any sequence of fetch_new_emails calls (successes, transient
\* failures with retries, auth failure followed by reset_error) no message
\* id is returned more than once, and every returned id is in the seen set.
C1_Dedup == ~dupReturned /\ returned \subseteq seen_uids

\* a call that had a transient failure succeeds, lists a message an
\* earlier call returned, and does not return it again
C1_Witness ==
    /\ pc = "idle"
    /\ call.outcome = "success"
    /\ call.netFails > 0
    /\ \E u \in call.listed : u \in returned /\ u \notin call.ret

\* C2: the first successful poll returns nothing and leaves every listed id
\* in the seen set; bootstrap_done is false until a poll has succeeded and
\* true from then on.
C2_Bootstrap ==
    /\ bootstrap_done = succeeded
    /\ (pc = "idle" /\ call.outcome = "success" /\ ~call.bootAtStart)
          => /\ call.ret = {}
             /\ call.listed \subseteq seen_uids
             /\ bootstrap_done

\* the first successful poll found unseen mail in both folders
C2_Witness ==
    /\ pc = "idle"
    /\ call.outcome = "success"
    /\ ~call.bootAtStart
    /\ call.listed # {}
    /\ \A f \in 1..Len(Folders) : mailbox[f] # {}

\* C3: once an attempt has raised an authentication error the call is over:
\* state AuthFailed, nothing returned, the failed login was the last
\* connection attempt, and no sleep followed it (sleeps only follow the
\* transient failures before it).
C3_AuthFailFast ==
    call.authRaised =>
        /\ pc = "idle"
        /\ state = "auth_failed"
        /\ call.outcome = "auth"
        /\ call.ret = {}
        /\ call.attempts = call.netFails + 1
        /\ Len(call.sleeps) = call.netFails

\* authentication fails on the first attempt with retries left
C3_Witness ==
    /\ call.authRaised
    /\ call.attempts = 1
    /\ call.sleeps = <<>>
    /\ max_retries > 1

C4_Schedule(i) == IF i = 0 THEN 5 ELSE IF i = 1 THEN 10 ELSE 30

\* C4: a call that is not stopped and whose every attempt fails with a
\* transient network error makes exactly max_retries attempts, sleeps
\* 5, 10, 30, 30, ... after attempts 0, 1, 2, 3, ..., and ends in state
\* Error with the retries-exhausted message; the sleeps of any call are a
\* prefix of that schedule.
C4_Backoff ==
    /\ \A i \in 1..Len(call.sleeps) : call.sleeps[i] = C4_Schedule(i - 1)
    /\ (/\ pc = "idle"
        /\ call.enteredRunning
        /\ call.outcome # "stopped"
        /\ call.netFails = call.attempts)
          => /\ call.attempts = max_retries
             /\ Len(call.sleeps) = max_retries
             /\ state = "error"
             /\ error_message = "exhausted"
             /\ call.outcome = "exhausted"
             /\ call.ret = {}

\* max_retries = 3, three transient failures, sleeps 5, 10, 30
C4_Witness ==
    /\ pc = "idle"
    /\ call.outcome = "exhausted"
    /\ max_retries = 3
    /\ call.attempts = 3
    /\ call.netFails = 3
    /\ call.sleeps = <<5, 10, 30>>

\* the schedule is clamped to its last element from the fourth attempt on
C4_WitnessClamped ==
    /\ pc = "idle"
    /\ call.outcome = "exhausted"
    /\ call.sleeps = <<5, 10, 30, 30>>

C5_ShortCircuit ==
    (call.outcome # "none" /\ (call.startState \in Terminal \/ ~enabled))
        => /\ pc = "idle"
           /\ call.ret = {}
           /\ call.attempts = 0
           /\ ~call.enteredRunning
           /\ state = call.startState
           /\ state # "running"

C5_RunningOnly ==
    state = "running"
        => /\ enabled
           /\ call.startState \notin Terminal
           /\ call.enteredRunning
           /\ pc # "idle"

\* C5: a fetch call on a terminal poller or a not-enabled account returns
\* empty with no connection attempt and without entering Running; Running
\* is only entered by a fetch on an enabled, non-terminal account; only
\* reset_error takes a poller out of a terminal state.
C5_Terminal ==
    /\ [](C5_ShortCircuit /\ C5_RunningOnly)
    /\ [][(state \in Terminal /\ state' \notin Terminal) => reset_error]_vars

\* a fetch call on a poller in AuthFailed has returned
C5_Witness ==
    /\ pc = "idle"
    /\ call.outcome = "short_circuit"
    /\ state = "auth_failed"
    /\ enabled

\* a fetch call on a not-enabled account has returned
C5_WitnessNotEnabled ==
    /\ pc = "idle"
    /\ call.outcome = "not_enabled"
    /\ ~enabled

(***************************************************************************)
(* Properties of the dispatch pipeline (SpecDispatch, SpecNotifier).       *)
(***************************************************************************)
Count(trace, e) == Cardinality({i \in DOMAIN trace : trace[i].e = e})

\* the rounds of the notifier loop: the call raised TypeError, a message
\* was handed to the Bot API, or the notifier raised
NotifyEvents == {"TypeError", "send", "raise"}

\* C6: with one Telegram notifier configured, in every mode one dispatch
\* makes exactly one outbound notification call and registers the snapshot in
\* the pending-message cache exactly once.
C6_OneSendOneCache ==
    (disp.done /\ notifiers = 1)
        => /\ Count(disp.trace, "send") = 1
           /\ Count(disp.trace, "cache") = 1

\* what the dispatch does instead: the snapshot is cached once, each
\* notifier call raises TypeError, nothing is sent and nothing is counted
C6_Observed ==
    disp.done
        => /\ Count(disp.trace, "send") = 0
           /\ Count(disp.trace, "TypeError") = notifiers
           /\ Count(disp.trace, "cache") = (IF notifiers > 0 THEN 1 ELSE 0)
           /\ total_forwarded = 0

\* C7: a dispatch calls the AI analysis once if the mode it read is agent
\* and never if it is raw or hybrid, and the analysis is over before the
\* first notifier is called.
C7_AIPolicy ==
    /\ disp.done
          => Count(disp.trace, "ai") = (IF disp.mode = "agent" THEN 1 ELSE 0)
    /\ disp.mode # "agent" => Count(disp.trace, "ai") = 0
    /\ Count(disp.trace, "ai") <= 1
    /\ \A i, j \in DOMAIN disp.trace :
          (disp.trace[i].e = "ai" /\ disp.trace[j].e \in NotifyEvents) => i < j
    /\ (disp.mode = "agent" /\ \E j \in DOMAIN disp.trace :
                                  disp.trace[j].e \in NotifyEvents)
          => Count(disp.trace, "ai") = 1

\* an agent-mode dispatch whose analysis got a valid LLM reply has called
\* its notifier
C7_Witness ==
    /\ disp.done
    /\ disp.mode = "agent"
    /\ disp.reply = "valid"
    /\ notifiers = 1
    /\ Len(disp.trace) = 3
    /\ disp.trace[2].e = "ai"
    /\ disp.trace[3].e \in NotifyEvents

\* a hybrid-mode dispatch is over
C7_WitnessHybrid ==
    /\ disp.done
    /\ disp.mode = "hybrid"
    /\ notifiers = 1
    /\ Count(disp.trace, "ai") = 0

\* C8: in hybrid mode send_with_mode sends a plain forward without button
\* iff the body has fewer than 100 characters or the pattern matches inside
\* its first 300 characters; otherwise it sends the preview (the first 50
\* characters) with a button whose token is summ_<uid of the snapshot>.
C8_HybridShape ==
    (notif.pc = "done" /\ notif.mode = "hybrid")
        => LET b == notif.snapshot.body
               skip == b.len < 100 \/ (b.pat >= 0 /\ b.pat + b.plen <= 300)
           IN /\ ~notif.out.raised
              /\ (notif.out.shape = "plain" /\ notif.out.button.kind = "none")
                    <=> skip
              /\ ~skip => /\ notif.out.shape = "preview"
                          /\ notif.out.button.kind = "summ"
                          /\ notif.out.button.uid = notif.snapshot.uid
                          /\ notif.out.preview = 50

\* 400 characters of prose: preview with the summary button
C8_Witness ==
    /\ notif.pc = "done"
    /\ notif.mode = "hybrid"
    /\ notif.snapshot.body = ProseBody
    /\ notif.out.shape = "preview"
    /\ notif.out.button = SummToken(notif.snapshot.uid)

\* "Your code: 123456": plain forward
C8_WitnessCode ==
    /\ notif.pc = "done"
    /\ notif.mode = "hybrid"
    /\ notif.snapshot.body = CodeBody
    /\ notif.out.shape = "plain"

\* a long body whose only match ends after character 300: preview
C8_WitnessLateMatch ==
    /\ notif.pc = "done"
    /\ notif.mode = "hybrid"
    /\ notif.snapshot.body = [len |-> 400, pat |-> 296, plen |-> 5]
    /\ notif.out.shape = "preview"

\* C9: an agent-mode dispatch whose AI analysis failed outright (LLM error,
\* empty or malformed output) sends the plain forward, not the agent card.
C9_AgentFallback ==
    (/\ disp.done
     /\ notifiers = 1
     /\ disp.mode = "agent"
     /\ disp.reply \in {"error", "empty", "malformed"})
        => /\ \E i \in DOMAIN disp.trace :
                 disp.trace[i].e = "send" /\ disp.trace[i].out.shape = "plain"
           /\ \A i \in DOMAIN disp.trace : disp.trace[i].out.shape # "card"

\* the same at the notifier, called with the arguments it accepts: given
\* the result analyze_email returns on failure, send_with_mode in agent
\* mode sends the plain forward
C9_NotifierFallback ==
    (notif.pc = "done" /\ notif.mode = "agent" /\ notif.ai_result = DefaultResult)
        => notif.out.shape = "plain"

\* C10: a summary or translate callback whose uid is not in the cache edits
\* the message to the expiry notice of its kind, calls no AI analysis,
\* sends no message and does not raise.
C10_CacheMiss ==
    (cb.kind \in {"summ", "trans"} /\ cb.uid \notin CachedUids(email_cache))
        => /\ cb.answered
           /\ cb.edits = <<IF cb.kind = "summ" THEN "summary_expired"
                           ELSE "translation_expired">>
           /\ cb.aiCalls = 0
           /\ cb.sends = <<>>
           /\ ~cb.typing
           /\ ~cb.raised

\* a summary callback for uid 1, which was cached and has been evicted
C10_Witness ==
    /\ cb.kind = "summ"
    /\ cb.uid = 1
    /\ nextUid["work"] > CACHE_MAX + 1
    /\ nextUid["home"] = 1
    /\ 1 \notin CachedUids(email_cache)
    /\ cb.edits = <<"summary_expired">>

\* a translate callback for a uid no account has returned
C10_WitnessNeverCached ==
    /\ cb.kind = "trans"
    /\ \A a \in Accounts : cb.uid >= nextUid[a]
    /\ nextUid["work"] <= CACHE_MAX
    /\ email_cache # <<>>
    /\ cb.edits = <<"translation_expired">>

\* a callback whose uid is cached goes on to the analysis
C10_WitnessHit ==
    /\ cb.kind = "summ"
    /\ cb.uid \in CachedUids(email_cache)
    /\ cb.aiCalls = 1

(***************************************************************************)
(* Properties of the mode switch (SpecMode).                               *)
(***************************************************************************)

\* C11: a mode switch callback that names the mode already in force is
\* answered "already in that mode" and changes neither the mode nor the
\* configuration file, and no write is attempted; one that names no mode at
\* all is answered "invalid" and likewise changes and writes nothing.
C11_NoOpSwitch ==
    [][(cb'.kind = "mode" /\ (cb'.req = mode \/ cb'.req \notin Modes))
         => /\ cb'.answered
            /\ cb'.ack = (IF cb'.req = mode THEN "already" ELSE "invalid")
            /\ cb'.writes = 0
            /\ cb'.edits = <<>>
            /\ mode' = mode
            /\ config_file' = config_file]_vars

\* the mode in force was switched to earlier, is asked for again, and the
\* file could have been written
C11_Witness ==
    /\ cb.kind = "mode"
    /\ cb.ack = "already"
    /\ cb.req = mode
    /\ config_file.exists
    /\ config_file.default_mode = mode
    /\ mode = "agent"
    /\ ~ai_enabled

\* a name that is no mode is asked for while a dispatch is in flight
C11_WitnessInvalid ==
    /\ cb.kind = "mode"
    /\ cb.ack = "invalid"
    /\ cb.req \notin Modes
    /\ disp.pc = "send"

\* C12: after a switch to a valid mode other than the current one the mode
\* in memory is the requested one and the mode held by the configuration
\* store equals the mode in memory.
C12_WriteThrough ==
    [][(cb'.kind = "mode" /\ cb'.req \in Modes /\ cb'.req # mode)
         => /\ mode' = cb'.req
            /\ StoredMode(config_file') = mode']_vars

\* what the handler does instead: the mode in memory is always the requested
\* one; the store holds it only if the handler's config.json is the store,
\* exists, and was read and written without an error; a missing file is
\* skipped without a write.
C12_Observed ==
    [][(cb'.kind = "mode" /\ cb'.req \in Modes /\ cb'.req # mode)
         => /\ mode' = cb'.req
            /\ cb'.ack = "switched"
            /\ (cb'.io = "ok" /\ config_file.is_store)
                  => StoredMode(config_file') = mode'
            /\ (cb'.io = "ok") <=> (config_file'.default_mode = mode'
                                     /\ config_file.exists
                                     /\ cb'.writes = 1
                                     /\ cb'.io \notin {"write_error",
                                                       "write_cut"})
            /\ (cb'.io \in {"missing", "read_error"})
                  => (cb'.writes = 0 /\ config_file' = config_file)
            /\ (~config_file.is_store)
                  => StoredMode(config_file') = StoredMode(config_file)]_vars

\* a switch whose write went through to the store
C12_WitnessStored ==
    /\ cb.kind = "mode"
    /\ cb.ack = "switched"
    /\ cb.io = "ok"
    /\ config_file.is_store
    /\ StoredMode(config_file) = mode
    /\ mode = "agent"

\* C13: a dispatch reads the mode once, when it starts: the first dispatch
\* that starts after a switch gets the new mode, and whatever is switched
\* while it is in flight, the mode it holds stays the one it read, the
\* analysis is called iff that mode is agent, and every notifier is called
\* with that mode.
C13_ModeCapture ==
    [][/\ (disp.pc = "idle" /\ disp'.pc # "idle") => disp'.mode = mode
       /\ (disp.pc # "idle" /\ disp'.snapshot = disp.snapshot)
             => disp'.mode = disp.mode
       /\ disp'.pc = "send"
             => /\ Count(disp'.trace, "ai")
                     = (IF disp'.mode = "agent" THEN 1 ELSE 0)
                /\ \A i \in 1..Len(disp'.calls) :
                      disp'.calls[i] = disp'.mode]_vars

\* the mode was agent when the dispatch started, the analysis ran, the mode
\* was switched to raw and written to the store, and the notifier was
\* called with agent
C13_Witness ==
    /\ disp.pc = "send"
    /\ disp.mode = "agent"
    /\ mode = "raw"
    /\ StoredMode(config_file) = "raw"
    /\ config_file.loaded = "agent"
    /\ disp.calls = <<"agent">>
    /\ Count(disp.trace, "ai") = 1

\* a dispatch that started after a switch away from the loaded mode
C13_WitnessAfterSwitch ==
    /\ ai_enabled
    /\ config_file.loaded = "raw"
    /\ disp.pc = "send"
    /\ disp.mode = "hybrid"
    /\ mode = "hybrid"
    /\ total_forwarded = 0
    /\ budget = ModeDispatches - 1

(***************************************************************************)
(* Properties of the pending cache (SpecCache).                            *)
(***************************************************************************)
\* the uids at the places 1..n of the cache
FirstUids(cache, n) == {cache[i].uid : i \in 1..Min(n, Len(cache))}

\* the place of a cached uid
Place(cache, uid) == CHOOSE i \in DOMAIN cache : cache[i].uid = uid

\* C14: the cache never holds more than 200 entries and holds each uid
\* once; a registration stores its snapshot; if it brings the size above
\* 200 exactly the 100 uids that entered the cache first are removed and
\* every other one, the new one included, is kept; otherwise nothing is
\* removed; the entries that stay keep their order.
C14_CacheBound ==
    [][(disp.pc = "idle" /\ disp'.pc # "idle")
         => LET new == disp'.snapshot
                grows == new.uid \notin CachedUids(email_cache)
                over == grows /\ Len(email_cache) + 1 > 200
            IN /\ Len(email_cache') <= 200
               /\ Cardinality(CachedUids(email_cache')) = Len(email_cache')
               /\ \E i \in DOMAIN email_cache' : email_cache'[i] = new
               /\ CachedUids(email_cache')
                     = (CachedUids(email_cache) \cup {new.uid})
                          \ (IF over THEN FirstUids(email_cache, 100) ELSE {})
               /\ \A i \in 1..(Len(email_cache') - 1) :
                     (grows /\ i + 1 = Len(email_cache'))
                     \/ Place(email_cache, email_cache'[i].uid)
                           < Place(email_cache, email_cache'[i + 1].uid)]_vars

\* the 201st uid has been registered: uids 1..100 are gone, among them uid 1
\* although home mail had been registered under it again just before
C14_Witness ==
    /\ Len(email_cache) = 101
    /\ CachedUids(email_cache) = 101..201
    /\ nextUid["home"] = 2
    /\ disp.snapshot.uid = 201

\* a registration fills the cache to exactly 200 and removes nothing
C14_WitnessAtMark ==
    /\ Len(email_cache) = 200
    /\ disp.snapshot.uid = 200
    /\ disp.pc = "send"

(***************************************************************************)
(* Properties of the poll cycle (SpecTick).                                *)
(***************************************************************************)
\* s is an initial part of t
IsPrefix(s, t) == Len(s) <= Len(t) /\ SubSeq(t, 1, Len(s)) = s

C15_WitnessEarlier ==
    \E w \in Workers :
      /\ workers[w].pc = "sleep"
      /\ Len(workers[w].results) = NumAccounts
      /\ workers[w].results[1] = "success"
      /\ workers[w].results[NumAccounts] = "auth"
      /\ workers[w].handed # <<>>
      /\ workers[w].handed = workers[w].all_snapshots
      /\ statuses[NumAccounts].state = "auth_failed"

\* C16: when a poll cycle ends, whether or not the stop event was set
\* during it, every snapshot the fetchers returned in it has been handed to
\* _dispatch_notification exactly once.
C16_HandOff ==
    [][\A w \in Workers :
         (workers[w].pc # "sleep" /\ workers'[w].pc = "sleep")
            => workers'[w].handed = workers'[w].all_snapshots]_vars

\* what the cycle does instead: snapshots are handed over in order and at
\* most once; all of them if no stop was seen; if the stop event is seen at
\* the head of the dispatch loop the rest of the list is dropped.
C16_Observed ==
    [][\A w \in Workers :
         /\ IsPrefix(workers'[w].handed, workers'[w].all_snapshots)
         /\ (workers[w].pc # "sleep" /\ workers'[w].pc = "sleep")
               => /\ (workers'[w].cut # "dispatch")
                        => workers'[w].handed = workers'[w].all_snapshots
                  /\ (workers'[w].cut = "dispatch")
                        => /\ svc_stop_event
                           /\ Len(workers'[w].handed)
                                 < Len(workers'[w].all_snapshots)]_vars

\* a cycle ended by the stop event after one of two gathered snapshots was
\* handed over
C16_WitnessDropped ==
    \E w \in Workers :
      /\ workers[w].pc = "sleep"
      /\ workers[w].cut = "dispatch"
      /\ Len(workers[w].all_snapshots) = 2
      /\ Len(workers[w].handed) = 1

(***************************************************************************)
(* Cancellation of the poller (SpecFetch).                                 *)
(***************************************************************************)

\* C17: a connection attempt starts only while the stop event is not set;
\* once it is set, a call at the head of the retry loop or in a backoff
\* wait sleeps no further second and its next step returns the empty list
\* and leaves the poller idle.
C17_Cancellation ==
    [][/\ (call'.attempts = call.attempts + 1) => ~stop_event
       /\ (stop_event /\ pc \in {"loop", "sleep"} /\ attempt < max_retries)
             => \/ <<pc, slept, attempt, state, call>>'
                      = <<pc, slept, attempt, state, call>>
                \/ /\ pc' = "idle"
                   /\ state' = "idle"
                   /\ call'.outcome = "stopped"
                   /\ call'.ret = {}
                   /\ call'.sleeps = call.sleeps
                   /\ call'.attempts = call.attempts
                   /\ returned' = returned]_vars

\* the stop event is set in the third second of the second backoff wait,
\* and the call has returned
C17_Witness ==
    /\ stop_event
    /\ pc = "idle"
    /\ state = "idle"
    /\ call.outcome = "stopped"
    /\ call.sleeps = <<BACKOFF_BASE[1]>>
    /\ call.netFails = 2
    /\ slept = 0
    /\ retry_count = 2

\* the stop event is set while the poller sleeps: three of ten seconds slept
C17_WitnessSleeping ==
    /\ stop_event
    /\ pc = "sleep"
    /\ attempt = 1
    /\ slept = 3

\* the same at the poll cycle: a worker calls fetch_new_emails only while
\* the stop event is not set
C17_NoNewFetch ==
    [][\A w \in Workers :
         (workers[w].pc # "in_fetch" /\ workers'[w].pc = "in_fetch")
            => ~svc_stop_event]_vars

(***************************************************************************)
(* Properties of the life cycle (SpecService, SpecStopFair).               *)
(***************************************************************************)

\* C18: a stop() on a running service completes and leaves the state
\* stopped, whether or not the worker and the bot poller have exited; and
\* if every call in flight returns, a worker that is alive when the stop
\* event is set eventually leaves _main_loop.
C18_BoundedStop ==
    /\ [][(ctl.op = "stop" /\ ctl'.op = "none") => svc_state' = "stopped"]_vars
    /\ (ctl.op = "stop") ~> (ctl.op = "none")
    /\ \A w \in Workers : (svc_stop_event /\ Alive(w)) ~> ~Alive(w)

\* what holds: stop() completes with the state stopped, and a worker leaves
\* its loop unless a later start() clears the stop event before the worker
\* has tested it
C18_Observed ==
    /\ [][(ctl.op = "stop" /\ ctl'.op = "none") => svc_state' = "stopped"]_vars
    /\ (ctl.op = "stop") ~> (ctl.op = "none")
    /\ \A w \in Workers :
          (svc_stop_event /\ Alive(w)) ~> (~Alive(w) \/ ~svc_stop_event)

\* stop() has returned while the worker is still inside a fetch and the
\* bot poller inside get_updates
C18_WitnessAbandoned ==
    /\ svc_state = "stopped"
    /\ ctl.op = "none"
    /\ svc_stop_event
    /\ \E w \in Workers : workers[w].pc = "in_fetch"
    /\ bot_thread.alive

\* C20: whatever start(), stop() and reload_config() calls are made, at most
\* one worker is inside a poll cycle and at most one fetch is in progress.
C20_SinglePollTask ==
    /\ Cardinality({w \in Workers : InCycle(w)}) <= 1
    /\ Cardinality({w \in Workers : workers[w].pc = "in_fetch"}) <= 1

\* what holds: the worker that start() created last is the only one while
\* every earlier one has left its loop, and an earlier one is alive only if
\* a join timed out on it
C20_Observed ==
    /\ \A w \in Workers : Alive(w) => w <= thread
    /\ svc_state = "running" => (thread # 0 /\ workers[thread].pc # "unborn")

\* two workers are each inside a fetch, the service is running, and the
\* first worker started this cycle after the second was created
C20_WitnessTwoFetches ==
    /\ svc_state = "running"
    /\ ~svc_stop_event
    /\ \A w \in Workers : workers[w].pc = "in_fetch" /\ workers[w].idx = 1
    /\ statuses[1].state # "idle"


\* the threads that wait for a lock another thread (or they themselves) hold
Blocked(t) == Wants(t) # "none" /\ Holders(Wants(t)) # {}

\* C19: no nested locking. In every interleaving of the poll task, the
\* interaction task and the control thread no thread holds more than one of
\* the per-resource locks, and a thread that waits for a lock waits for
\* another thread that holds nothing else and asks for nothing more, so the
\* wait always ends and the tasks cannot deadlock on the locks.
C19_NoNestedLocking ==
    \A t \in TaskIds :
       /\ Len(tasks[t].held) <= 1
       /\ Blocked(t) =>
             \A h \in Holders(Wants(t)) :
                /\ h # t
                /\ tasks[h].held = <<Wants(t)>>
                /\ tasks[h].inner = <<>>
                /\ ~Blocked(h)

\* the poll task waits for the mode lock while the interaction task, in a
\* mode switch, has taken it, and the control thread holds the state lock
C19_Witness ==
    /\ tasks["bot"].op = "mode_switch"
    /\ tasks["bot"].held = <<"mode">>
    /\ tasks["poll"].op = "dispatch"
    /\ Wants("poll") = "mode"
    /\ Blocked("poll")
    /\ tasks["ctl"].held = <<"state">>

(***************************************************************************)
(* Properties of a scan after the first poll (SpecScan).                   *)
(***************************************************************************)

\* C24: after the first poll a message is put on the list that the call
\* returns only if its uid is not in the seen set and it has no date or a
\* date at or after the fetcher's start; a message dated before the start
\* is not put on the list and its uid is in the seen set after its turn.
\* The list returned is the list gathered.
C24_ForwardCondition ==
    [][/\ (pc = "scan" /\ todo # <<>> /\ bootstrap_done) =>
            LET m == Head(todo)
            IN /\ snapshots' # snapshots =>
                     /\ snapshots' = Append(snapshots, m.uid)
                     /\ m.uid \notin seen_uids
                     /\ (m.date = "none" \/ DateAt(m.date) >= STARTED_AT)
               /\ (m.date # "none" /\ DateAt(m.date) < STARTED_AT) =>
                     /\ snapshots' = snapshots
                     /\ m.uid \in seen_uids'
       /\ (pc = "scan" /\ todo = <<>>) => snapshots' \in {snapshots, <<>>}
       /\ (pc = "scan" /\ pc' = "idle") => call'.ret = SeqToSet(snapshots)
      ]_vars

\* a call has returned the message dated at the start and the message with
\* no date, and has marked the message dated before the start as seen
C24_Witness ==
    /\ pc = "idle"
    /\ call.outcome = "success"
    /\ \E a, b, c \in mailbox[1] :
          /\ a.date = "before"
          /\ b.date = "at"
          /\ c.date = "none"
          /\ call.ret = {b.uid, c.uid}
          /\ a.uid \in seen_uids
          /\ forwarded_count = 2

\* the scan is at a message dated before the start that is not yet seen
C24_WitnessOld ==
    /\ pc = "scan"
    /\ todo # <<>>
    /\ Head(todo).date = "before"
    /\ Head(todo).uid \notin seen_uids
    /\ snapshots # <<>>

\* C26: a message whose parsing fails is not put on the list, the attempt
\* goes on (no state change, no exception), the messages gathered before it
\* stay on the list, the messages listed after it in the folder and the later
\* folders are still processed, each eligible one of them being put on the
\* list unless its own parsing fails, and the attempt returns the list.
C26_ParseIsolation ==
    [][/\ (pc = "scan" /\ todo # <<>>) =>
            LET m == Head(todo)
            IN /\ pc' = "scan"
               /\ state' = state
               /\ todo' = Tail(todo)
               /\ folderIdx' = folderIdx
               /\ \/ snapshots' = snapshots
                  \/ snapshots' = Append(snapshots, m.uid)
               /\ Decide(m.uid, m.date, seen_uids, bootstrap_done) = "parse" =>
                     \/ snapshots' = Append(snapshots, m.uid)
                     \/ m.uid \notin seen_uids'
       /\ (pc = "scan" /\ todo = <<>> /\ folderIdx < Len(Folders)) =>
             /\ pc' = "scan"
             /\ snapshots' = snapshots
             /\ folderIdx' = folderIdx + 1
             /\ todo' = ListFolder(folderIdx + 1, FetchLimitOf(bootstrap_done))
       /\ (pc = "scan" /\ pc' = "idle") =>
             /\ call'.outcome = "success"
             /\ state' = "idle"
             /\ call'.ret = SeqToSet(snapshots)
      ]_vars

\* INBOX holds messages 1 and 2 and Archive message 3, all eligible; the
\* parsing of 1 failed (it is still unseen), and the call returned 2, listed
\* before it, and 3, of the later folder
C26_Witness ==
    /\ pc = "idle"
    /\ call.outcome = "success"
    /\ {m.uid : m \in mailbox[1]} = {1, 2}
    /\ {m.uid : m \in mailbox[2]} = {3}
    /\ \A f \in 1..Len(Folders) : \A m \in mailbox[f] : m.date = "after"
    /\ call.ret = {2, 3}
    /\ returned = {2, 3}
    /\ seen_uids = {2, 3}

\* INBOX holds three eligible messages; the parsing of 2 failed and the
\* call returned 3, listed before it, and 1, listed after it
C26_WitnessMiddle ==
    /\ pc = "idle"
    /\ call.outcome = "success"
    /\ {m.uid : m \in mailbox[1]} = {1, 2, 3}
    /\ call.ret = {1, 3}
    /\ returned = {1, 3}
    /\ seen_uids = {1, 3}

(***************************************************************************)
(* Properties of the retry loop (SpecFetch), continued.                    *)
(***************************************************************************)

\* an attempt of the call in progress fails with a network error or with an
\* unexpected exception
TransientFailure ==
    /\ pc \in {"loop", "scan"}
    /\ \/ call'.netFails = call.netFails + 1
       \/ call.outcome = "running" /\ call'.outcome = "unexpected"

\* C25: every transient failure of an attempt (timeout, connection error,
\* unexpected exception) moves the account to Error, sets the retry counter
\* to the number of failed attempts, and is followed by a backoff sleep; the
\* sleep is followed by the next attempt while attempts are left.
C25_Transient ==
    [][/\ TransientFailure =>
            /\ state' = "error"
            /\ retry_count' = attempt + 1
            /\ pc' = "sleep"
       /\ (pc = "sleep" /\ pc' = "loop") => attempt' = attempt + 1
       /\ (pc = "loop" /\ attempt < max_retries /\ ~stop_event /\ pc' # "loop") =>
            call'.attempts = call.attempts + 1
      ]_vars

\* what holds: a network error does all of that; an unexpected exception
\* moves the account to Error and ends the call at once, with no sleep, no
\* further attempt and the retry counter as it was
C25_Observed ==
    [][/\ (TransientFailure /\ call'.netFails = call.netFails + 1) =>
            /\ state' = "error"
            /\ retry_count' = attempt + 1
            /\ pc' = "sleep"
       /\ (TransientFailure /\ call'.netFails = call.netFails) =>
            /\ state' = "error"
            /\ retry_count' = retry_count
            /\ pc' = "idle"
            /\ call'.ret = {}
       /\ (pc = "sleep" /\ pc' = "loop") => attempt' = attempt + 1
       /\ (pc = "loop" /\ attempt < max_retries /\ ~stop_event /\ pc' # "loop") =>
            call'.attempts = call.attempts + 1
      ]_vars

\* a call has ended on an unexpected exception in its first attempt, with
\* attempts left and no sleep
C25_WitnessGivenUp ==
    /\ pc = "idle"
    /\ state = "error"
    /\ call.outcome = "unexpected"
    /\ call.attempts = 1
    /\ max_retries > 1
    /\ call.sleeps = <<>>
    /\ retry_count = 0

\* C27: a call on an account left in Error by exhausted retries enters
\* Running and starts at attempt 0; every call has the full budget of
\* max_retries attempts before it gives up, and its backoff waits are the
\* schedule from its first entry on.
C27_NoPersistentBackoff ==
    [][/\ (/\ pc = "idle"
           /\ state = "error"
           /\ error_message = "exhausted"
           /\ call' # call
           /\ call'.outcome # "none") =>
              /\ state' = "running"
              /\ error_message' = ""
              /\ pc' = "loop"
              /\ attempt' = 0
              /\ call'.attempts = 0
              /\ call'.sleeps = <<>>
       /\ call'.outcome = "exhausted" => call'.attempts = max_retries
       /\ \A i \in DOMAIN call'.sleeps : call'.sleeps[i] = BackoffWait(i - 1)
       /\ call'.sleeps # <<>> => call'.sleeps[1] = BACKOFF_BASE[1]
      ]_vars

\* the call that follows an exhausted one is in its first attempt: the
\* status still shows the retry count of the exhausted call
C27_Witness ==
    /\ call.startState = "error"
    /\ state = "running"
    /\ pc = "scan"
    /\ call.attempts = 1
    /\ call.netFails = 0
    /\ max_retries >= 2
    /\ retry_count = max_retries

\* a call that started in Error has used the full budget again
C27_WitnessAgain ==
    /\ call.startState = "error"
    /\ call.outcome = "exhausted"
    /\ max_retries = MaxRetries
    /\ call.attempts = max_retries
    /\ Len(call.sleeps) = max_retries
    /\ call.sleeps[1] = BACKOFF_BASE[1]

(***************************************************************************)
(* Properties of the translate callback (SpecDispatch).                    *)
(***************************************************************************)

\* C21: a translate callback that finds its snapshot in the cache sends one
\* translation message, and when the analysis result carries no translation
\* the message says 'No translation available'; the message is never empty
\* and never left out.
C21_NoTranslation ==
    (cb.kind = "trans" /\ cb.typing) =>
       /\ ~cb.raised
       /\ Len(cb.sends) = 1
       /\ cb.sends[1].shape = "translation"
       /\ cb.sends[1].text \in {"translation", "No translation available"}
       /\ ("translation" \notin DOMAIN cb.sends[1].result
             \/ cb.sends[1].result.translation = "None") =>
                cb.sends[1].text = "No translation available"

\* what holds: on a cache hit the callback is answered, the typing action is
\* sent, analyze_email is called once, and reading result.translation raises
\* before any message is composed: nothing is sent and nothing is edited
C21_Observed ==
    (cb.kind = "trans" /\ cb.typing) =>
       /\ cb.answered
       /\ cb.aiCalls = 1
       /\ cb.raised
       /\ cb.sends = <<>>
       /\ cb.edits = <<>>

\* a translate callback for a cached uid has raised
C21_WitnessRaised ==
    /\ cb.kind = "trans"
    /\ cb.typing
    /\ cb.raised
    /\ cb.uid \in CachedUids(email_cache)

(***************************************************************************)
(* Properties of the /rules conversation (SpecRules).                      *)
(***************************************************************************)

\* a message that is no command, known to the router or not
FreeText(text) == text \in {"be brief", "2", "drop 1", "  "}

\* C22: when the last update of a chat was a plain /rules, the next
\* free-text message of that chat is applied neither as a rule addition
\* nor as a rule deletion.
C22_RulesCancels ==
    (upd.kind = "text" /\ FreeText(upd.text) /\ upd.afterRules) =>
       upd.route = "none"

\* what holds: a plain /rules shows the list and leaves the intent of the
\* chat as it was, so the free-text message that follows it is applied
\* exactly as if /rules had not been sent
C22_Observed ==
    [][/\ (upd'.kind = "text" /\ upd'.text = "/rules") =>
            /\ rules_pending' = rules_pending
            /\ rules_file' = rules_file
            /\ upd'.reply = "rules_list"
       /\ (upd'.kind = "text" /\ FreeText(upd'.text) /\ upd'.afterRules) =>
            upd'.route = rules_pending[upd'.chat]
      ]_vars

\* a chat said /rules add, then /rules, and its next message became a rule
C22_WitnessApplied ==
    /\ upd.kind = "text"
    /\ upd.text = "be brief"
    /\ upd.afterRules
    /\ upd.route = "add"
    /\ upd.reply = "added"
    /\ rules_file = <<"be brief">>

\* C29: a free-text message of a chat is handed to the rule addition
\* (deletion) exactly if the chat has a pending add (delete) intent; the
\* message consumes the intent of its chat and of no other chat; with no
\* pending intent, as for a second free-text message, no rule changes; and
\* the rules change only by the addition or deletion so requested.
C29_RuleConversation ==
    [][/\ (upd'.kind = "text" /\ FreeText(upd'.text)) =>
            LET c == upd'.chat
            IN /\ (upd'.route = "add") <=> (rules_pending[c] = "add")
               /\ (upd'.route = "delete") <=> (rules_pending[c] = "delete")
               /\ upd'.route \in {"add", "delete", "none"}
               /\ rules_pending'[c] = "none"
               /\ \A o \in Chats \ {c} : rules_pending'[o] = rules_pending[o]
               /\ rules_pending[c] = "none" => rules_file' = rules_file
               /\ (upd'.route = "add" /\ ~upd'.raised) =>
                     rules_file' = Append(load_rules(rules_file),
                                          Strip(upd'.text))
               /\ (upd'.route = "delete" /\ upd'.reply = "deleted") =>
                     /\ Len(load_rules(rules_file')) =
                           Len(load_rules(rules_file)) - 1
                     /\ FirstNumber(upd'.text) \in 1..Len(load_rules(rules_file))
               /\ (upd'.route = "delete" /\ upd'.reply # "deleted") =>
                     rules_file' = rules_file
       /\ rules_file' # rules_file =>
            /\ upd'.kind = "text"
            /\ upd'.route \in {"add", "delete"}
            /\ upd'.was = upd'.route
      ]_vars

\* a chat with a pending add has sent a text, which became the second rule
\* and consumed the intent, while the other chat's pending delete stayed
C29_Witness ==
    /\ upd.kind = "text"
    /\ upd.text = "drop 1"
    /\ upd.was = "add"
    /\ upd.route = "add"
    /\ rules_file = <<"be brief", "drop 1">>
    /\ rules_pending[upd.chat] = "none"
    /\ \E o \in Chats \ {upd.chat} : rules_pending[o] = "delete"

\* a free-text message with no pending intent, after rules had been added
\* and one of them deleted: nothing was done with it
C29_WitnessSecond ==
    /\ upd.kind = "text"
    /\ upd.text = "2"
    /\ upd.was = "none"
    /\ upd.route = "none"
    /\ upd.reply = "none"
    /\ rules_file = <<"drop 1">>

(***************************************************************************)
(* analyze_email and what propagates out of it.                            *)
(***************************************************************************)
\* C23: analyze_email never raises: whatever the configuration, the import,
\* the construction of the prompt, the LLM call and the reply do, the call
\* ends with a result and no exception reaches its caller.
C23_NeverRaises == ai.state = "done" => ai.out.exc = "none"

\* what the code does: a failure inside the second try block, and an
\* ImportError or a failed second import, end in the default result; an
\* enabled call raises exactly when the first try block raises something
\* its handlers do not name, when _patch_litellm_cost_map raises, or when
\* the configuration has no language for build_system_prompt to read
C23_Observed ==
    ai.state = "done" =>
        /\ ai.out.exc # "none" <=>
              /\ ai.config.enabled
              /\ \/ ai.env.import \in {"other", "missing_patch_raises"}
                 \/ /\ ai.env.import \in {"ok", "missing_patched"}
                    /\ ai.config.language = "absent"
        /\ ai.out.exc = "none" => ai.out.result.kind # "None"
        /\ /\ ai.out.exc = "none"
           /\ \/ ~ai.config.enabled
              \/ ai.env.import \in {"ImportError", "missing_retry_fails"}
              \/ ai.env.completion = "raises"
              \/ ai.env.reply.form \in {"None", "empty", "blank", "garbage",
                                        "array"}
           => ai.out.result = DefaultResult

\* the AIConfig of models.py, enabled, with litellm installed: the call
\* raises AttributeError before the LLM is asked anything
C23_WitnessRaised ==
    /\ ai.state = "done"
    /\ ai.config = [enabled |-> TRUE, language |-> "absent"]
    /\ ai.env.import = "ok"
    /\ ai.out.exc = "AttributeError"

\* a failed LLM call ends in the default result
C23_WitnessFallback ==
    /\ ai.state = "done"
    /\ ai.config.enabled
    /\ ai.config.language # "absent"
    /\ ai.env.import = "ok"
    /\ ai.env.completion = "raises"
    /\ ai.out = Ok(DefaultResult)

InDomain(r) ==
    /\ r.category \in Categories
    /\ r.priority \in PRIORITY_MIN..PRIORITY_MAX

C30_Observed ==
    ai.state = "done" =>
        /\ ai.out.exc = "none" => InDomain(ai.out.result)
        /\ ai.out.parsed.kind # "None" =>
              /\ ai.out.parsed.priority \in PRIORITY_MIN..PRIORITY_MAX
              /\ ai.out.parsed.category \in Categories
                    <=> ai.env.reply.category # "spam"
              /\ ai.out.result = DefaultResult

\* a reply that validates with a category outside the five
C30_WitnessParsed ==
    /\ ai.state = "done"
    /\ ai.env.reply.form = "object"
    /\ ai.env.reply.category = "spam"
    /\ ai.out.parsed.kind = "parsed"
    /\ ai.out.parsed.category = "spam"

\* a reply whose priority is out of bounds is rejected
C30_WitnessRejected ==
    /\ ai.state = "done"
    /\ ai.config.enabled
    /\ ai.env.reply.form = "object"
    /\ ai.env.reply.priority = [kind |-> "int", v |-> 6]
    /\ ai.out = Ok(DefaultResult)

(***************************************************************************)
(* The same mode switch callback delivered twice.                          *)
(***************************************************************************)
\* the calls of _persist_ai_config one _cb_mode_switch makes
PersistCalls(c) == IF c.ack = "switched" THEN 1 ELSE 0

\* C28: a mode switch callback handled twice in succession leaves the mode
\* that handling it once leaves, and persists once in total: the second
\* handling answers "Already in ... mode", changes neither the mode nor the
\* file, and makes no persistence call, so the one call (and the one
\* write_text, when the handler's file is there and readable) is that of
\* the first handling.
C28_DuplicateSwitch ==
    [][/\ (cb.kind = "mode" /\ cb.ack = "switched" /\ cb' # cb
              /\ cb'.kind = "mode" /\ cb'.req = cb.req)
          => /\ cb'.ack = "already"
             /\ mode' = mode
             /\ mode' = cb.req
             /\ config_file' = config_file
             /\ cb'.edits = <<>>
             /\ PersistCalls(cb) + PersistCalls(cb') = 1
             /\ cb.writes + cb'.writes =
                   IF cb.io \in {"missing", "read_error"} THEN 0 ELSE 1
       /\ (cb.kind = "mode" /\ cb.ack # "switched"
              /\ cb'.kind = "mode" /\ cb'.req = cb.req)
          => /\ cb' = cb
             /\ mode' = mode
             /\ config_file' = config_file
             /\ PersistCalls(cb) + PersistCalls(cb') = 0]_vars

\* the second delivery of a switch to agent mode that was written through
C28_Witness ==
    /\ cb.kind = "mode"
    /\ cb.ack = "already"
    /\ cb.req = "agent"
    /\ mode = "agent"
    /\ config_file.exists
    /\ config_file.default_mode = "agent"
    /\ config_file.loaded = "raw"

\* the second delivery while a dispatch that captured the old mode is in
\* flight
C28_WitnessInFlight ==
    /\ cb.kind = "mode"
    /\ cb.ack = "already"
    /\ cb.req = "hybrid"
    /\ disp.pc = "send"
    /\ disp.mode # mode

(***************************************************************************)
(* The pending cache and the accounts.                                     *)
(***************************************************************************)
\* the highest uid any account has handed to the dispatcher
MaxUid ==
    LET tops == {nextUid[a] - 1 : a \in Accounts}
    IN  CHOOSE m \in tops : \A n \in tops : n <= m

\* nothing was evicted so far: every uid dispatched is still a key
NoEviction == Len(email_cache) = MaxUid

\* C31: cached snapshots are told apart by account: while nothing was
\* evicted, a summary or translate callback that carries the uid of a
\* dispatched message of account a and finds an entry resolves to a
\* snapshot of account a, whichever account that is.
C31_AccountScoped ==
    (cb.kind \in {"summ", "trans"} /\ cb.account # "" /\ NoEviction)
       => \A a \in Accounts : cb.uid < nextUid[a] => cb.account = a

\* what the code does: the cache is keyed by the uid alone, so the callback
\* resolves to a dispatched message with that uid, of whichever account; it
\* is the message's own when no other account has dispatched the same uid
C31_Observed ==
    (cb.kind \in {"summ", "trans"} /\ cb.account # "" /\ NoEviction)
       => /\ \E a \in Accounts : cb.uid < nextUid[a] /\ cb.account = a
          /\ \A i \in DOMAIN email_cache :
                email_cache[i].uid = cb.uid
                   => email_cache[i].account = cb.account

\* both accounts have dispatched a message with uid 1 and neither was
\* evicted: the summary button resolves to the home message
C31_WitnessOther ==
    /\ cb.kind = "summ"
    /\ cb.uid = 1
    /\ cb.account = "home"
    /\ nextUid["work"] > 1
    /\ nextUid["home"] > 1
    /\ NoEviction

(***************************************************************************)
(* A connection that breaks while the folders are read.                    *)
(***************************************************************************)
\* _do_fetch leaves by an exception after the login: the attempt fails
ScanFailure == pc = "scan" /\ pc' \in {"sleep", "idle"} /\ call'.outcome # "success"

\* C32: when an attempt after the first poll fails with messages already
\* parsed, none of them is left in the seen set: a message in the seen set
\* is never listed as eligible again, so one that is marked seen at the
\* failure is marked without ever being returned.
C32_NoLoss ==
    [][(bootstrap_done /\ ScanFailure)
          => \A u \in SeqToSet(snapshots) : u \notin seen_uids']_vars

\* what the code does: the failed attempt drops its list and returns
\* nothing of it, the uids of the list stay in the seen set, and a uid in
\* the seen set is never appended to a list again
C32_Observed ==
    [][/\ (bootstrap_done /\ ScanFailure)
          => /\ SeqToSet(snapshots) \subseteq seen_uids'
             /\ seen_uids' = seen_uids
             /\ snapshots' = <<>>
             /\ returned' = returned
       /\ seen_uids \subseteq seen_uids'
       /\ \A u \in SeqToSet(snapshots') \ SeqToSet(snapshots) :
             u \notin seen_uids]_vars

(***************************************************************************)
(* The interaction loop across stop() and start().                         *)
(***************************************************************************)
\* the interaction loop is running and will take the next batch of updates
Serving == bot_thread.alive /\ ~bot_thread.stop

\* C33: once the service runs (again), the interaction loop is eventually
\* running and serving, unless the service is stopped again first; also
\* when the earlier poller had not exited when stop() returned.
C33_BotRestart ==
    (svc_state = "running" /\ bot_thread.handler)
       ~> (Serving \/ svc_state # "running")

\* what the code does: start() on a stopped service leaves a poller that is
\* still alive as it is, with its stop event set, and starts a new one only
\* when the old one has exited; reload_config starts the poller of the
\* handler it has just built
C33_Observed ==
    [][(svc_state # "running" /\ svc_state' = "running" /\ bot_thread.handler)
          => IF ctl.op = "reload"
             THEN bot_thread'.alive /\ ~bot_thread'.stop
             ELSE IF bot_thread.alive
             THEN bot_thread' = bot_thread
             ELSE bot_thread'.alive /\ ~bot_thread'.stop]_vars

\* the service is running, no call is in progress, and nothing polls
\* Telegram
C33_WitnessSilent ==
    /\ svc_state = "running"
    /\ ctl.op = "none"
    /\ bot_thread.handler
    /\ ~bot_thread.alive
    /\ bot_thread.stop

(***************************************************************************)
(* The account status when fetch_new_emails has returned.                  *)
(***************************************************************************)
\* C34: when a call has returned after a successful attempt, also one that
\* followed failed attempts of the same call, the status is Idle with retry
\* count 0 and an empty error text.
C34_StatusAfterSuccess ==
    (pc = "idle" /\ call.outcome = "success")
       => /\ state = "idle"
          /\ retry_count = 0
          /\ error_message = ""

\* what the code does: the success path sets the state and the retry count
\* only, so the error text is empty exactly when no attempt of the call
\* failed, and is the text of the last network error otherwise
C34_Observed ==
    (pc = "idle" /\ call.outcome = "success")
       => /\ state = "idle"
          /\ retry_count = 0
          /\ error_message = IF call.netFails = 0 THEN "" ELSE "network"

\* a call whose second attempt succeeded
C34_WitnessStaleText ==
    /\ pc = "idle"
    /\ call.outcome = "success"
    /\ call.attempts = 2
    /\ call.netFails = 1
    /\ state = "idle"
    /\ retry_count = 0
    /\ error_message = "network"

\* C35: whenever fetch_new_emails has returned, by whichever path, the
\* state of the account is Idle, Error, AuthFailed or Disabled, never
\* Running; each path leaves the state it is meant to leave.
C35_NoStuckRunning ==
    pc = "idle" =>
        /\ state \in {"idle", "error", "auth_failed", "disabled"}
        /\ call.outcome \in {"success", "stopped"} => state = "idle"
        /\ call.outcome \in {"exhausted", "unexpected"} => state = "error"
        /\ call.outcome = "auth" => state = "auth_failed"
        /\ call.outcome = "short_circuit" => state \in Terminal
        /\ call.outcome = "not_enabled" => state = call.startState

\* a call that was stopped during the wait after a failed attempt
C35_Witness ==
    /\ pc = "idle"
    /\ call.outcome = "stopped"
    /\ call.enteredRunning
    /\ call.netFails > 0
    /\ state = "idle"

\* a call that ran out of attempts
C35_WitnessExhausted ==
    /\ pc = "idle"
    /\ call.outcome = "exhausted"
    /\ call.enteredRunning
    /\ call.attempts = max_retries
    /\ state = "error"

(***************************************************************************)
(* reset_error                                                             *)
(***************************************************************************)
\* a step of reset_error: between two calls, the log of the last call is
\* dropped
ResetStep == pc = "idle" /\ pc' = "idle" /\ call' = NoCall

\* C36: reset_error moves a fetcher in Error or AuthFailed to Idle with an
\* empty error text and retry count 0, changes nothing of the status in
\* any other state, and never changes the seen set, the first-poll flag or
\* the forwarded count (the start time is fixed at construction).
C36_ResetFrame ==
    [][ResetStep =>
         /\ IF state \in {"error", "auth_failed"}
            THEN state' = "idle" /\ error_message' = "" /\ retry_count' = 0
            ELSE UNCHANGED <<state, error_message, retry_count>>
         /\ UNCHANGED <<seen_uids, bootstrap_done, forwarded_count, enabled,
                        max_retries, mailbox, returned>>]_vars

\* reset_error has just run on a fetcher that had forwarded a message: it
\* is Idle with a clean status, and what it has seen and counted is kept
C36_Witness ==
    /\ pc = "idle"
    /\ call = NoCall
    /\ state = "idle"
    /\ error_message = ""
    /\ retry_count = 0
    /\ seen_uids = {1}
    /\ returned = {1}
    /\ forwarded_count = 1
    /\ bootstrap_done
    /\ max_retries = 1

\* reset_error has run on an idle fetcher that still shows the text of a
\* failed attempt: the text stays
C36_WitnessNoEffect ==
    /\ pc = "idle"
    /\ call = NoCall
    /\ state = "idle"
    /\ error_message = "network"

(***************************************************************************)
(* C37: the interaction loop of a handler hands every update to that       *)
(* handler at most once, and a handler that raises on one update leaves    *)
(* the later updates of the batch in hand and the loop polling: the step   *)
(* that raises takes exactly the failed update off the batch and goes on   *)
(* with the next one, or with the next poll when it was the last.          *)
(***************************************************************************)
RaisingStep == poller'.raised \ poller.raised # {}

C37_UpdateHandling ==
    [][/\ \A i \in UpdateIds : poller'.handled[i] <= 1
       /\ RaisingStep =>
            /\ poller'.batch = Tail(poller.batch)
            /\ poller'.pc = IF Len(poller.batch) > 1 THEN "batch" ELSE "poll"
            /\ poller'.offset = Head(poller.batch) + 1]_vars

\* update 1 raised and update 2, of the same batch (the server has seen no
\* offset yet), was handled after it
C37_Witness ==
    /\ 1 \in poller.raised
    /\ poller.handled[2] = 1
    /\ poller.confirmed = 0

\* update 1 raised and update 2, which came with a later poll (the poll
\* that confirmed update 1 alone), was handled
C37_WitnessLaterPoll ==
    /\ 1 \in poller.raised
    /\ poller.handled[2] = 1
    /\ poller.confirmed >= 1
    /\ poller.handled[1] = 1
    /\ 2 \notin poller.raised

\* the scope of C37 is one loop: the offset lives in the handler, so an
\* update of the last batch of one handler, which no poll has confirmed,
\* comes again to the loop of the handler built by reload_config
C37_WitnessRedelivered ==
    /\ poller.handlers = 2
    /\ poller.ever[1] = 2
    /\ poller.handled[1] = 1

(***************************************************************************)
(* C38: total_forwarded never decreases; the end of a dispatch adds one    *)
(* to it when at least one notifier call of that dispatch reported the     *)
(* snapshot as sent and nothing when every notifier call failed or raised, *)
(* and no other step changes it.                                           *)
(***************************************************************************)
EndOfDispatch == disp.pc = "send" /\ disp'.pc = "idle" /\ disp'.done

\* every notifier call of the dispatch raised
AllRaised(trace) ==
    \A i \in DOMAIN trace :
        trace[i].e \in NotifyEvents => trace[i].e \in {"TypeError", "raise"}

C38_Observed ==
    /\ total_forwarded = 0
    /\ disp.success_count = 0
    /\ AllRaised(disp.trace)

Registration == disp.pc = "idle" /\ disp'.pc # "idle" /\ bot_handler

\* uids a registration may carry: the oldest key, the last key an eviction
\* drops, the first it keeps, the newest key, a new one
RegUids(cache) ==
    {1, 2} \cup (IF cache = <<>> THEN {}
                 ELSE {cache[1].uid, cache[Min(Len(cache), CACHE_EVICT)].uid,
                       cache[Min(Len(cache), CACHE_EVICT + 1)].uid,
                       cache[Len(cache)].uid, cache[Len(cache)].uid + 1})

C39_LookupAfterRegistration ==
    [][/\ Registration =>
            get_cached_email(email_cache', disp'.snapshot.uid) = disp'.snapshot
       /\ \A a \in Accounts : \A u \in RegUids(email_cache) :
            get_cached_email(cache_email(email_cache, SnapshotOf(u, a)), u)
                = SnapshotOf(u, a)]_vars

\* the registration that made the 201st entry has evicted the 100 oldest
\* and its own snapshot, the newest entry, is found
C39_Witness ==
    /\ disp.pc = "send"
    /\ disp.idx = 1
    /\ Len(email_cache) = CACHE_MAX + 1 - CACHE_EVICT
    /\ email_cache[Len(email_cache)] = disp.snapshot
    /\ get_cached_email(email_cache, disp.snapshot.uid) = disp.snapshot

\* a registration under a uid that was already cached, among the oldest
\* keys of a full cache: the entry is replaced in place and found
C39_WitnessReplaced ==
    /\ disp.pc = "send"
    /\ disp.idx = 1
    /\ Len(email_cache) = CACHE_MAX
    /\ disp.snapshot = SnapshotOf(1, "home")
    /\ email_cache[1] = disp.snapshot

====
